---- MODULE Spec2Model ----
(***************************************************************************)
(* Layout-optimisation engine of src/layout_generator.py: geometry kernel, *)
(* zone classifier, constraint validator, corridor synthesiser, fitness    *)
(* evaluator and the three placement strategies (genetic, greedy, random). *)
(*                                                                         *)
(* Numbers.  Lengths that the code keeps as floats are exact here.  A     *)
(* rectangle whose four fields are integers is the record [x, y, width,    *)
(* height]; a rectangle with a fractional side carries a fifth field den    *)
(* and its four fields are numerators over den.  The random source yields  *)
(* integer positions, and integer sides whenever a bucket admits them.     *)
(* Corridor rectangles are centred in gaps and therefore land on half      *)
(* units: every field of a corridor rectangle is stored doubled (Twice).   *)
(* Ratios (fitness terms, the score, the utilisation percentage) are exact *)
(* rationals [num, den], den > 0.                                          *)
(*                                                                         *)
(* Random source.  rng is the state of the random module as far as the     *)
(* placement loop reads it: either free (every draw may be any value of    *)
(* the sample sets below) or a stream fixed by a seed, in which a seeded   *)
(* run is one deterministic outcome of the code.                           *)
(*                                                                         *)
(* Requests.  Spec follows one POST /generate-layout of src/api_routes.py  *)
(* from its arrival to its answer.  The database is not part of the state: *)
(* what it answers to this request (the rows are found or not, the commit  *)
(* succeeds or raises, the key it gives the row, the reload of the row     *)
(* succeeds or raises) is an input of the step that asks, whatever the     *)
(* requests served beside this one have done to the tables.                *)
(***************************************************************************)
EXTENDS Integers, Sequences, FiniteSets, TLC

VARIABLES floor_plan, profile, zones, walls, restricted_areas, entrance_areas,
          algorithm, pc, strategy, population, scored_population, generation,
          best_layout, best_score, evaluated_max, result, call, rng,
          response, placement

vars == <<floor_plan, profile, zones, walls, restricted_areas, entrance_areas,
          algorithm, pc, strategy, population, scored_population, generation,
          best_layout, best_score, evaluated_max, result, call, rng,
          response, placement>>

----------------------------------------------------------------------------
(* Bounds of the model.                                                    *)

\* population_size is 50 and generations is 100 in the source
\* (layout_generator.py:92-93); the search is explored with smaller values.
population_size == 5
generations == 2
\* longest unit list handed to the fitness evaluator on its own
MaxUnits == 2

\* values the random source may return for a coordinate (random.uniform)
Coords == {0, 3, 6}
\* values the random source may return for a mutation offset in [-5, 5]
Deltas == {-3, 0, 3}
\* values the random source may return for a side of a unit
Sides == 1..6
\* values the random source may return for a greedy side in [15, 25]
GreedySides == {15, 25}

\* a seeded stream: entry c is a (width, height) and the origin of cell c of
\* a grid of 14 x 14 cells, 7 apart
StreamSizes == << <<4, 4>>, <<5, 4>>, <<4, 5>>, <<5, 5>>, <<6, 4>>, <<5, 3>> >>
StreamCells == 14 * 14
StreamDraw(c) ==
    LET k == c % StreamCells
    IN  [size |-> StreamSizes[(c % Len(StreamSizes)) + 1],
         x |-> 7 * (k % 14), y |-> 7 * (k \div 14)]
\* entry c of the seeded stream read as a greedy (width, height) in [15, 25]
StreamGreedyDraw(c) == <<15 + ((3 * c) % 11), 15 + ((7 * c) % 11)>>
\* seeds a run can start from
Seeds == 0..39

----------------------------------------------------------------------------
(* Exact rational arithmetic standing for the float arithmetic.            *)

Abs(n) == IF n < 0 THEN -n ELSE n
Min2(a, b) == IF a < b THEN a ELSE b
Max2(a, b) == IF a < b THEN b ELSE a

RECURSIVE Gcd(_, _)
Gcd(a, b) == IF b = 0 THEN a ELSE Gcd(b, a % b)

Lcm(a, b) == (a \div Gcd(a, b)) * b

Rat(n, d) ==
    LET g == Gcd(Abs(n), d)
    IN  [num |-> n \div g, den |-> d \div g]

Zero == [num |-> 0, den |-> 1]
One == [num |-> 1, den |-> 1]

RatAdd(p, q) ==
    LET l == Lcm(p.den, q.den)
    IN  Rat(p.num * (l \div p.den) + q.num * (l \div q.den), l)

RatMul(p, q) ==
    LET g1 == Gcd(Abs(p.num), q.den)
        g2 == Gcd(Abs(q.num), p.den)
    IN  Rat((p.num \div g1) * (q.num \div g2), (p.den \div g2) * (q.den \div g1))

RatLt(p, q) ==
    LET l == Lcm(p.den, q.den)
    IN  p.num * (l \div p.den) < q.num * (l \div q.den)

RatLeq(p, q) == ~RatLt(q, p)
RatMin(p, q) == IF RatLt(q, p) THEN q ELSE p
RatMax(p, q) == IF RatLt(p, q) THEN q ELSE p

RECURSIVE SumRange(_, _, _)
\* s[lo] + ... + s[hi], split in halves
SumRange(s, lo, hi) ==
    IF lo > hi THEN 0
    ELSE IF lo = hi THEN s[lo]
    ELSE SumRange(s, lo, (lo + hi) \div 2) + SumRange(s, (lo + hi) \div 2 + 1, hi)

SumSeq(s) == SumRange(s, 1, Len(s))

\* sorted(...) on a list of numbers
Sorted(s) == SortSeq(s, LAMBDA a, b : a < b)

None == [none |-> TRUE]

----------------------------------------------------------------------------
(* Geometry kernel.                                                        *)

Rectangle(x, y, w, h) == [x |-> x, y |-> y, width |-> w, height |-> h]

\* the denominator of the four fields of a rectangle
Den(r) == IF "den" \in DOMAIN r THEN r.den ELSE 1

\* the rectangle (x, y, w, h) / d in lowest terms
RectangleOver(x, y, w, h, d) ==
    LET g == Gcd(Gcd(Gcd(Gcd(Abs(x), Abs(y)), Abs(w)), Abs(h)), d)
    IN  IF d = g
        THEN Rectangle(x \div g, y \div g, w \div g, h \div g)
        ELSE [x |-> x \div g, y |-> y \div g, width |-> w \div g,
              height |-> h \div g, den |-> d \div g]

\* the area property of a rectangle with integer fields
Area(r) == r.width * r.height

\* the area of any rectangle
RatArea(r) == Rat(r.width * r.height, Den(r) * Den(r))

Twice(r) == [r EXCEPT !.x = 2 * @, !.y = 2 * @, !.width = 2 * @, !.height = 2 * @]

IntersectsOneSided(a, b) ==
    ~((a.x + a.width) * Den(b) < b.x * Den(a) \/
      (a.y + a.height) * Den(b) < b.y * Den(a))

\* the test with <= : rectangles that only touch do not intersect
IntersectsOpen(a, b) ==
    ~((a.x + a.width) * Den(b) <= b.x * Den(a) \/
      (b.x + b.width) * Den(a) <= a.x * Den(b) \/
      (a.y + a.height) * Den(b) <= b.y * Den(a) \/
      (b.y + b.height) * Den(a) <= a.y * Den(b))

Intersects(a, b) ==
    ~((a.x + a.width) * Den(b) < b.x * Den(a) \/
      (b.x + b.width) * Den(a) < a.x * Den(b) \/
      (a.y + a.height) * Den(b) < b.y * Den(a) \/
      (b.y + b.height) * Den(a) < a.y * Den(b))

Ilot(id, rect, area, min_size, max_size) ==
    [id |-> id, rect |-> rect, room_type |-> "standard", area |-> area,
     min_size |-> min_size, max_size |-> max_size]

----------------------------------------------------------------------------
(* Zone classifier.                                                        *)

Point(x, y) == [x |-> x, y |-> y]

MinOf(S) == CHOOSE m \in S : \A v \in S : m <= v
MaxOf(S) == CHOOSE m \in S : \A v \in S : v <= m

\* the length test with 3 in the place of 4
CoordsToRectanglesThree(coordinates) ==
    LET pts == coordinates.points
        xs == {pts[i].x : i \in 1..Len(pts)}
        ys == {pts[i].y : i \in 1..Len(pts)}
    IN  IF Len(pts) = 0 THEN <<>>
        ELSE IF coordinates.format \in {"dict", "list"} /\ Len(pts) >= 3
        THEN <<Rectangle(MinOf(xs), MinOf(ys),
                         MaxOf(xs) - MinOf(xs), MaxOf(ys) - MinOf(ys))>>
        ELSE <<>>

\* coordinates: [format |-> "dict" | "list", points |-> sequence of Point]
CoordsToRectangles(coordinates) ==
    LET pts == coordinates.points
        xs == {pts[i].x : i \in 1..Len(pts)}
        ys == {pts[i].y : i \in 1..Len(pts)}
    IN  IF Len(pts) = 0 THEN <<>>
        ELSE IF coordinates.format \in {"dict", "list"} /\ Len(pts) >= 4
        THEN <<Rectangle(MinOf(xs), MinOf(ys),
                         MaxOf(xs) - MinOf(xs), MaxOf(ys) - MinOf(ys))>>
        ELSE <<>>

RECURSIVE ZoneRectangles(_, _)
ZoneRectangles(zs, types) ==
    IF zs = <<>> THEN <<>>
    ELSE (IF Head(zs).type \in types
          THEN CoordsToRectangles(Head(zs).coordinates) ELSE <<>>)
         \o ZoneRectangles(Tail(zs), types)

----------------------------------------------------------------------------
(* Available area and constraint validator.                                *)

SumAreas(rs) == SumSeq([i \in 1..Len(rs) |-> Area(rs[i])])

CalculateAvailableArea ==
    Max2(0, floor_plan.width * floor_plan.height
            - SumAreas(restricted_areas) - SumAreas(entrance_areas))

IsValidPlacementNoZones(rect, existing_ilots) ==
    /\ ~(rect.x < 0 \/ rect.y < 0 \/
         rect.x + rect.width > floor_plan.width * Den(rect) \/
         rect.y + rect.height > floor_plan.height * Den(rect))
    /\ \A i \in 1..Len(existing_ilots) : ~Intersects(rect, existing_ilots[i].rect)

\* the boundary test with >= : a candidate touching the far edges is rejected
IsValidPlacementStrictEdge(rect, existing_ilots) ==
    /\ ~(rect.x < 0 \/ rect.y < 0 \/
         rect.x + rect.width >= floor_plan.width * Den(rect) \/
         rect.y + rect.height >= floor_plan.height * Den(rect))
    /\ \A i \in 1..Len(existing_ilots) : ~Intersects(rect, existing_ilots[i].rect)
    /\ \A i \in 1..Len(restricted_areas) : ~Intersects(rect, restricted_areas[i])
    /\ \A i \in 1..Len(entrance_areas) : ~Intersects(rect, entrance_areas[i])

\* the validator with a fourth loop over the walls
IsValidPlacementWalls(rect, existing_ilots) ==
    /\ ~(rect.x < 0 \/ rect.y < 0 \/
         rect.x + rect.width > floor_plan.width * Den(rect) \/
         rect.y + rect.height > floor_plan.height * Den(rect))
    /\ \A i \in 1..Len(existing_ilots) : ~Intersects(rect, existing_ilots[i].rect)
    /\ \A i \in 1..Len(restricted_areas) : ~Intersects(rect, restricted_areas[i])
    /\ \A i \in 1..Len(entrance_areas) : ~Intersects(rect, entrance_areas[i])
    /\ \A i \in 1..Len(walls) : ~Intersects(rect, walls[i])

IsValidPlacement(rect, existing_ilots) ==
    /\ ~(rect.x < 0 \/ rect.y < 0 \/
         rect.x + rect.width > floor_plan.width * Den(rect) \/
         rect.y + rect.height > floor_plan.height * Den(rect))
    /\ \A i \in 1..Len(existing_ilots) : ~Intersects(rect, existing_ilots[i].rect)
    /\ \A i \in 1..Len(restricted_areas) : ~Intersects(rect, restricted_areas[i])
    /\ \A i \in 1..Len(entrance_areas) : ~Intersects(rect, entrance_areas[i])

----------------------------------------------------------------------------
(* Corridor synthesiser.                                                   *)

RECURSIVE DenRange(_, _, _)
\* the least common denominator of the rectangles of units lo..hi, split in
\* halves
DenRange(ilots, lo, hi) ==
    IF lo > hi THEN 1
    ELSE IF lo = hi THEN Den(ilots[lo].rect)
    ELSE Lcm(DenRange(ilots, lo, (lo + hi) \div 2),
             DenRange(ilots, (lo + hi) \div 2 + 1, hi))

\* the least common denominator of the rectangles of the units
CommonDen(ilots) == DenRange(ilots, 1, Len(ilots))

\* the corridor laid at the start of its gap instead of its middle
GapPositionsAtStart(ps, i, den) ==
    LET gap_size(k) == ps[k + 1] - ps[k]
        wide == SelectSeq([k \in 1..(Len(ps) - i) |-> k + i - 1],
                    LAMBDA k : 2 * gap_size(k) >= 3 * profile.corridor_width * den)
    IN  [m \in 1..Len(wide) |-> 2 * ps[wide[m]]]

\* doubled offsets of the corridors of the qualifying gaps from index i on;
\* the positions ps and the offsets are numerators over den
GapPositions(ps, i, den) ==
    LET gap_size(k) == ps[k + 1] - ps[k]
        wide == SelectSeq([k \in 1..(Len(ps) - i) |-> k + i - 1],
                    LAMBDA k : 2 * gap_size(k) >= 3 * profile.corridor_width * den)
    IN  [m \in 1..Len(wide) |->
            2 * ps[wide[m]] + gap_size(wide[m]) - profile.corridor_width * den]

\* every qualifying gap, without the cut to the first three; the offsets
\* are doubled numerators over CommonDen(ilots)
FindCorridorPositionsUncapped(ilots, direction) ==
    LET den == CommonDen(ilots)
        scale(i) == den \div Den(ilots[i].rect)
        lows == [i \in 1..Len(ilots) |->
                    IF direction = "horizontal" THEN ilots[i].rect.y * scale(i)
                    ELSE ilots[i].rect.x * scale(i)]
        highs == [i \in 1..Len(ilots) |->
                    IF direction = "horizontal"
                    THEN (ilots[i].rect.y + ilots[i].rect.height) * scale(i)
                    ELSE (ilots[i].rect.x + ilots[i].rect.width) * scale(i)]
    IN  GapPositions(Sorted(lows \o highs), 1, den)

FindCorridorPositions(ilots, direction) ==
    LET den == CommonDen(ilots)
        scale(i) == den \div Den(ilots[i].rect)
        lows == [i \in 1..Len(ilots) |->
                    IF direction = "horizontal" THEN ilots[i].rect.y * scale(i)
                    ELSE ilots[i].rect.x * scale(i)]
        highs == [i \in 1..Len(ilots) |->
                    IF direction = "horizontal"
                    THEN (ilots[i].rect.y + ilots[i].rect.height) * scale(i)
                    ELSE (ilots[i].rect.x + ilots[i].rect.width) * scale(i)]
        positions == GapPositions(Sorted(lows \o highs), 1, den)
    IN  SubSeq(positions, 1, Min2(3, Len(positions)))

\* corridor_rect is a doubled rectangle; the buffer 2.0 is 4 half units
FindConnectedIlots(corridor_rect, ilots) ==
    LET buffer == 4 * Den(corridor_rect)
        expanded_corridor ==
            [corridor_rect EXCEPT !.x = @ - buffer, !.y = @ - buffer,
                                  !.width = @ + 2 * buffer,
                                  !.height = @ + 2 * buffer]
        hit == SelectSeq([i \in 1..Len(ilots) |-> i],
                   LAMBDA i : Intersects(expanded_corridor, Twice(ilots[i].rect)))
    IN  [k \in 1..Len(hit) |-> ilots[hit[k]].id]

Corridor(kind, n, rect, ilots) ==
    [id |-> [kind |-> kind, n |-> n], rect |-> rect,
     width |-> profile.corridor_width,
     connected_ilots |-> FindConnectedIlots(rect, ilots)]

GenerateCorridors(ilots) ==
    LET y_positions == FindCorridorPositions(ilots, "horizontal")
        x_positions == FindCorridorPositions(ilots, "vertical")
        den == CommonDen(ilots)
        cw2 == 2 * profile.corridor_width * den
    IN  [k \in 1..Len(y_positions) |->
            Corridor("h_corridor", k,
                     RectangleOver(0, y_positions[k],
                                   2 * floor_plan.width * den, cw2, den),
                     ilots)]
        \o
        [k \in 1..Len(x_positions) |->
            Corridor("v_corridor", Len(y_positions) + k,
                     RectangleOver(x_positions[k], 0,
                                   cw2, 2 * floor_plan.height * den, den),
                     ilots)]

Layout(ilots) == [ilots |-> ilots, corridors |-> GenerateCorridors(ilots)]

----------------------------------------------------------------------------
(* Fitness evaluator.                                                      *)

RangeKey(b) == <<b.min_size, b.max_size>>

GetSizeRange(area) ==
    LET sd == profile.size_distribution
        fits == {i \in 1..Len(sd) : sd[i].min_size <= area /\ area <= sd[i].max_size}
    IN  IF fits = {} THEN <<>> ELSE RangeKey(sd[MinOf(fits)])

EvaluateSizeDistribution(ilots) ==
    LET sd == profile.size_distribution
        total_ilots == Len(ilots)
        actual_count(b) ==
            Cardinality({i \in 1..Len(ilots) : GetSizeRange(ilots[i].area) = RangeKey(b)})
        \* max(0, 1 - 2 * |actual/total - percentage/100|) over 100 * total
        term(b) ==
            IF total_ilots > 0
            THEN Rat(Max2(0, 100 * total_ilots
                             - 2 * Abs(100 * actual_count(b) - b.percentage * total_ilots)),
                     100 * total_ilots)
            ELSE Rat(Max2(0, 100 - 2 * Abs(b.percentage)), 100)
        sum[k \in 0..Len(sd)] ==
            IF k = 0 THEN Zero ELSE RatAdd(sum[k - 1], term(sd[k]))
    IN  IF Len(sd) = 0 THEN One
        ELSE RatMul(sum[Len(sd)], Rat(1, Len(sd)))

EvaluateRegularity(ilots) ==
    LET n == Len(ilots)
        aligned_count ==
            Cardinality({p \in (1..n) \X (1..n) :
                /\ p[1] < p[2]
                /\ LET r1 == ilots[p[1]].rect
                       r2 == ilots[p[2]].rect
                   IN  \/ Abs(r1.x * Den(r2) - r2.x * Den(r1)) < 2 * Den(r1) * Den(r2)
                       \/ Abs(r1.y * Den(r2) - r2.y * Den(r1)) < 2 * Den(r1) * Den(r2)})
        max_pairs == (n * (n - 1)) \div 2
    IN  IF n < 2 THEN One
        ELSE RatMin(One, Rat(aligned_count, max_pairs))

TotalIlotArea(ilots) == SumSeq([i \in 1..Len(ilots) |-> ilots[i].area])

\* the weighted sum before the final clamp
RawFitness(layout) ==
    LET ilots == layout.ilots
        corridors == layout.corridors
        available_area == CalculateAvailableArea
        utilization == IF available_area > 0
                       THEN Rat(TotalIlotArea(ilots), available_area) ELSE Zero
        \* corridor rectangles are doubled: their areas are in quarter units
        area4[k \in 0..Len(corridors)] ==
            IF k = 0 THEN Zero ELSE RatAdd(area4[k - 1], RatArea(corridors[k].rect))
        corridor_area4 == area4[Len(corridors)]
        corridor_ratio == IF available_area > 0
                          THEN RatMul(corridor_area4, Rat(1, 4 * available_area))
                          ELSE Zero
        corridor_score == RatMax(Zero, RatAdd(One, RatMul(Rat(-2, 1), corridor_ratio)))
        connected_ilots ==
            UNION {{corridors[i].connected_ilots[k] :
                        k \in 1..Len(corridors[i].connected_ilots)} :
                   i \in 1..Len(corridors)}
        accessibility == Rat(Cardinality(connected_ilots), Len(ilots))
        size_score == EvaluateSizeDistribution(ilots)
        regularity_score == EvaluateRegularity(ilots)
    IN  RatAdd(RatMul(utilization, Rat(3, 10)),
        RatAdd(RatMul(corridor_score, Rat(2, 10)),
        RatAdd(RatMul(accessibility, Rat(25, 100)),
        RatAdd(RatMul(size_score, Rat(15, 100)),
               RatMul(regularity_score, Rat(1, 10))))))

EvaluateFitnessUnclamped(layout) ==
    IF layout.ilots = <<>> THEN Zero ELSE RawFitness(layout)

EvaluateFitness(layout) ==
    IF layout.ilots = <<>> THEN Zero
    ELSE RatMin(One, RawFitness(layout))

----------------------------------------------------------------------------
(* Random attempt placement (building block of random and genetic).        *)

\* random.uniform(a / den, b / den), also when b < a
Uniform(a, b, den) ==
    {c \in Coords : Min2(a, b) <= c * den /\ c * den <= Max2(a, b)}

\* lines 190-195: integer (width, height) whose area random.uniform(min_size,
\* max_size) can return (the two bounds in either order) and whose aspect
\* ratio width / height lies in [0.7, 1.8]
SizeCandidates(min_size, max_size) ==
    {s \in Sides \X Sides :
        /\ Min2(min_size, max_size) <= s[1] * s[2]
        /\ s[1] * s[2] <= Max2(min_size, max_size)
        /\ 7 * s[2] <= 10 * s[1] /\ 10 * s[1] <= 18 * s[2]}

\* lines 194-195 on the first attempt: math.sqrt(area * aspect_ratio) raises
\* on a negative area, area / width divides by zero on area 0
SizeExceptions(min_size, max_size) ==
    (IF Min2(min_size, max_size) < 0
     THEN {[exception |-> "ValueError"]} ELSE {})
    \cup (IF Min2(min_size, max_size) <= 0 /\ 0 <= Max2(min_size, max_size)
          THEN {[exception |-> "ZeroDivisionError"]} ELSE {})

\* lines 190-195 for a bucket without an integer size: a positive integer
\* area a of the bucket and a height k / 2 whose aspect ratio 4a / k^2 lies
\* in [0.7, 1.8]; the width is a / (k / 2)
HalfSizes(min_size, max_size) ==
    {s \in (Max2(1, Min2(min_size, max_size))..Max2(min_size, max_size))
            \X (1..(2 * Max2(min_size, max_size))) :
        7 * s[2] * s[2] <= 40 * s[1] /\ 40 * s[1] <= 18 * s[2] * s[2]}

\* the (width, height) / den the two draws of lines 190-195 can give
Sizes(min_size, max_size) ==
    IF SizeCandidates(min_size, max_size) # {}
    THEN {[width |-> s[1], height |-> s[2], den |-> 1] :
             s \in SizeCandidates(min_size, max_size)}
    ELSE {[width |-> 4 * s[1], height |-> s[2] * s[2], den |-> 2 * s[2]] :
             s \in HalfSizes(min_size, max_size)}

\* lines 190 and 209: the drawn area, which is width * height
DrawnArea(r) == (r.width * r.height) \div (Den(r) * Den(r))

\* every outcome of the 100 attempts over the sizes and positions: the
\* first valid candidate, None when the attempts drew candidates that are
\* not valid, or the exception of an attempt whose area is not positive.
PlaceRandomIlot(ilot_id, min_size, max_size, existing_ilots) ==
    LET free ==
            UNION {{RectangleOver(x * s.den, y * s.den, s.width, s.height, s.den) :
                       x \in Uniform(0, floor_plan.width * s.den - s.width, s.den),
                       y \in Uniform(0, floor_plan.height * s.den - s.height, s.den)} :
                   s \in Sizes(min_size, max_size)}
        \* seeded: the attempts that follow n placed units all draw entry
        \* seed + n of the stream; a stream entry that is not a value the
        \* draws can return stands for one fixed candidate
        d == StreamDraw(rng.seed + Len(existing_ilots))
        seeded ==
            IF /\ d.size \in SizeCandidates(min_size, max_size)
               /\ 0 <= d.x /\ d.x <= floor_plan.width - d.size[1]
               /\ 0 <= d.y /\ d.y <= floor_plan.height - d.size[2]
            THEN {Rectangle(d.x, d.y, d.size[1], d.size[2])}
            ELSE IF free = {} THEN {}
            ELSE {CHOOSE r \in free : TRUE}
        candidates == IF rng.seeded THEN seeded ELSE free
        valid == {r \in candidates : IsValidPlacement(r, existing_ilots)}
    IN  {Ilot(ilot_id, r, DrawnArea(r), min_size, max_size) : r \in valid}
        \cup (IF valid # candidates THEN {None} ELSE {})
        \cup (IF rng.seeded /\ free # {} THEN {}
              ELSE SizeExceptions(min_size, max_size))

DefaultSizeDistribution ==
    << [min_size |-> 15, max_size |-> 25, percentage |-> 40],
       [min_size |-> 25, max_size |-> 35, percentage |-> 35],
       [min_size |-> 35, max_size |-> 50, percentage |-> 25] >>

\* `profile.size_distribution or [...]`: an empty list is falsy
EffectiveSizeDistribution ==
    IF profile.size_distribution # <<>> THEN profile.size_distribution
    ELSE DefaultSizeDistribution

\* the estimate without its cap
TotalIlotsUncapped == CalculateAvailableArea \div 20

TotalIlots == Min2(100, CalculateAvailableArea \div 20)

\* int(v) for v = n / d, d > 0: the fraction is dropped, toward zero
IntOf(n, d) == IF n >= 0 THEN n \div d ELSE -((-n) \div d)

\* the count rounded to the nearest integer instead of truncated
BucketCountRounded(size_config) == (TotalIlots * size_config.percentage + 50) \div 100

\* line 162: int(total_ilots * percentage / 100)
BucketCount(size_config) == IntOf(TotalIlots * size_config.percentage, 100)

Repeat(v, n) == [k \in 1..n |-> v]

RECURSIVE PlacementSlots(_)
\* one entry per iteration of the two nested loops, in order
PlacementSlots(sd) ==
    IF sd = <<>> THEN <<>>
    ELSE Repeat(Head(sd), BucketCount(Head(sd))) \o PlacementSlots(Tail(sd))

\* one pass of the inner loop body on st = [ilots, ilot_id]; an exception
\* ends the loops
PlaceSlot(slot, st) ==
    IF "exception" \in DOMAIN st THEN {st}
    ELSE {IF ilot = None THEN st
          ELSE IF "exception" \in DOMAIN ilot THEN ilot
          ELSE [ilots |-> Append(st.ilots, ilot), ilot_id |-> st.ilot_id + 1] :
          ilot \in PlaceRandomIlot(st.ilot_id, slot.min_size, slot.max_size, st.ilots)}

RECURSIVE PlaceRange(_, _, _, _)
\* the passes for slots lo..hi in order, split in halves
PlaceRange(slots, lo, hi, st) ==
    IF lo > hi THEN {st}
    ELSE IF lo = hi THEN PlaceSlot(slots[lo], st)
    ELSE LET mid == (lo + hi) \div 2
         IN  UNION {PlaceRange(slots, mid + 1, hi, s) :
                       s \in PlaceRange(slots, lo, mid, st)}

\* the state [ilots, ilot_id] after the loops, or the exception that ended them
PlaceSlots(slots, i, ilots, ilot_id) ==
    PlaceRange(slots, i, Len(slots), [ilots |-> ilots, ilot_id |-> ilot_id])

\* every outcome of _create_random_layout: a layout or an exception
CreateRandomLayout ==
    {IF "exception" \in DOMAIN st THEN st ELSE Layout(st.ilots) :
        st \in PlaceSlots(PlacementSlots(EffectiveSizeDistribution), 1, <<>>, 1)}

----------------------------------------------------------------------------
(* Genetic operators.                                                      *)

tournament_size == 5

\* a tournament of two in the place of five
TournamentSelectionPair(scored) ==
    LET k == Min2(2, Len(scored))
        beaten(i) == {j \in 1..Len(scored) :
                         j # i /\ RatLeq(scored[j].score, scored[i].score)}
    IN  {scored[i].individual :
            i \in {i \in 1..Len(scored) : Cardinality(beaten(i)) >= k - 1}}

\* individuals _tournament_selection can return: the best of some sample of
\* min(5, len) distinct entries
TournamentSelection(scored) ==
    LET k == Min2(tournament_size, Len(scored))
        beaten(i) == {j \in 1..Len(scored) :
                         j # i /\ RatLeq(scored[j].score, scored[i].score)}
    IN  {scored[i].individual :
            i \in {i \in 1..Len(scored) : Cardinality(beaten(i)) >= k - 1}}

RECURSIVE KeepNonOverlappingLast(_, _)
\* the overlap test against the last kept unit only
KeepNonOverlappingLast(all_ilots, final_ilots) ==
    IF all_ilots = <<>> THEN final_ilots
    ELSE LET ilot == Head(all_ilots)
         IN  IF /\ final_ilots # <<>>
                /\ Intersects(ilot.rect, final_ilots[Len(final_ilots)].rect)
             THEN KeepNonOverlappingLast(Tail(all_ilots), final_ilots)
             ELSE KeepNonOverlappingLast(Tail(all_ilots), Append(final_ilots, ilot))

RECURSIVE KeepNonOverlapping(_, _)
\* lines 438-441: the walk over all_ilots, final_ilots being the units kept
KeepNonOverlapping(all_ilots, final_ilots) ==
    IF all_ilots = <<>> THEN final_ilots
    ELSE LET ilot == Head(all_ilots)
         IN  IF \E i \in 1..Len(final_ilots) :
                    Intersects(ilot.rect, final_ilots[i].rect)
             THEN KeepNonOverlapping(Tail(all_ilots), final_ilots)
             ELSE KeepNonOverlapping(Tail(all_ilots), Append(final_ilots, ilot))

\* the pool walked with parent2's units first
CrossoverReversed(parent1, parent2) ==
    Layout(KeepNonOverlapping(parent2.ilots \o parent1.ilots, <<>>))

Crossover(parent1, parent2) ==
    Layout(KeepNonOverlapping(parent1.ilots \o parent2.ilots, <<>>))

RemoveAt(s, idx) == SubSeq(s, 1, idx - 1) \o SubSeq(s, idx + 1, Len(s))

\* the adjusted unit stored without the validity test
MutateAtUnchecked(individual, mutate_idx, dx, dy) ==
    LET ilots == individual.ilots
        ilot == ilots[mutate_idx]
        new_rect == [ilot.rect EXCEPT !.x = @ + dx * Den(ilot.rect),
                                      !.y = @ + dy * Den(ilot.rect)]
    IN  Layout([ilots EXCEPT ![mutate_idx] =
                   [id |-> ilot.id, rect |-> new_rect,
                    room_type |-> ilot.room_type, area |-> ilot.area,
                    min_size |-> ilot.min_size, max_size |-> ilot.max_size]])

\* lines 458-488 for one outcome of the three draws
MutateAt(individual, mutate_idx, dx, dy) ==
    LET ilots == individual.ilots
        ilot == ilots[mutate_idx]
        new_rect == [ilot.rect EXCEPT !.x = @ + dx * Den(ilot.rect),
                                      !.y = @ + dy * Den(ilot.rect)]
        other_ilots == RemoveAt(ilots, mutate_idx)
    IN  IF IsValidPlacement(new_rect, other_ilots)
        THEN Layout([ilots EXCEPT ![mutate_idx] =
                        [id |-> ilot.id, rect |-> new_rect,
                         room_type |-> ilot.room_type, area |-> ilot.area,
                         min_size |-> ilot.min_size, max_size |-> ilot.max_size]])
        ELSE Layout(ilots)

\* every layout _mutate can return
Mutate(individual) ==
    IF individual.ilots = <<>> THEN {Layout(<<>>)}
    ELSE {MutateAt(individual, idx, dx, dy) :
             idx \in 1..Len(individual.ilots), dx \in Deltas, dy \in Deltas}

RECURSIVE InsertByScore(_, _)
\* keeps e behind every entry whose score is not lower (stable, descending)
InsertByScore(e, acc) ==
    IF acc = <<>> THEN <<e>>
    ELSE IF RatLt(Head(acc).score, e.score) THEN <<e>> \o acc
    ELSE <<Head(acc)>> \o InsertByScore(e, Tail(acc))

RECURSIVE SortByFitness(_)
SortByFitness(s) ==
    IF s = <<>> THEN <<>>
    ELSE InsertByScore(s[Len(s)], SortByFitness(SubSeq(s, 1, Len(s) - 1)))

\* the ranking read from its tail, without the comparison
TrackBestTail(scored, layout, score) ==
    [layout |-> scored[Len(scored)].individual, score |-> scored[Len(scored)].score]

\* the score of the head of the ranking stored with the layout of its tail
TrackBestMixed(scored, layout, score) ==
    IF RatLt(score, scored[1].score)
    THEN [layout |-> scored[Len(scored)].individual, score |-> scored[1].score]
    ELSE [layout |-> layout, score |-> score]

\* the pair (best_layout, best_score) after "Track best"
TrackBest(scored, layout, score) ==
    IF RatLt(score, scored[1].score)
    THEN [layout |-> scored[1].individual, score |-> scored[1].score]
    ELSE [layout |-> layout, score |-> score]

\* the top tenth in the place of the top fifth
elite_count_tenth == population_size \div 10

elite_count == population_size \div 5

\* every child one pass of the offspring loop can append
Offspring(scored) ==
    UNION {{Crossover(parent1, parent2)} \cup Mutate(Crossover(parent1, parent2)) :
              parent1 \in TournamentSelection(scored),
              parent2 \in TournamentSelection(scored)}

----------------------------------------------------------------------------
(* Greedy placement.                                                       *)

grid_size == 30
greedy_limit == 50

\* range(0, int(limit), grid_size) as a sequence
GridRange(limit) ==
    [k \in 1..((limit + grid_size - 1) \div grid_size) |-> (k - 1) * grid_size]

GridCells ==
    LET ys == GridRange(floor_plan.height)
        xs == GridRange(floor_plan.width)
    IN  [k \in 1..(Len(ys) * Len(xs)) |->
            [x |-> xs[((k - 1) % Len(xs)) + 1], y |-> ys[((k - 1) \div Len(xs)) + 1]]]

\* the (width, height) the two draws at the i-th grid point can give
GreedyDraws(i) ==
    IF rng.seeded THEN {StreamGreedyDraw(rng.seed + i)}
    ELSE GreedySides \X GreedySides

\* the loop body at the i-th grid point without the test of the limit
GreedyCellNoLimit(cells, i, ilots) ==
    {LET rect == Rectangle(cells[i].x, cells[i].y, s[1], s[2])
     IN  IF IsValidPlacement(rect, ilots)
         THEN Append(ilots, Ilot(Len(ilots) + 1, rect, s[1] * s[2], 15, 25))
         ELSE ilots :
     s \in GreedyDraws(i)}

\* the loop body at the i-th grid point: every unit list it can leave
GreedyCell(cells, i, ilots) ==
    IF Len(ilots) >= greedy_limit THEN {ilots}
    ELSE {LET rect == Rectangle(cells[i].x, cells[i].y, s[1], s[2])
          IN  IF IsValidPlacement(rect, ilots)
              THEN Append(ilots, Ilot(Len(ilots) + 1, rect, s[1] * s[2], 15, 25))
              ELSE ilots :
          s \in GreedyDraws(i)}

RECURSIVE GreedyRange(_, _, _, _)
\* the grid points lo..hi in order, split in halves
GreedyRange(cells, lo, hi, ilots) ==
    IF lo > hi THEN {ilots}
    ELSE IF lo = hi THEN GreedyCell(cells, lo, ilots)
    ELSE LET mid == (lo + hi) \div 2
         IN  UNION {GreedyRange(cells, mid + 1, hi, l) :
                       l \in GreedyRange(cells, lo, mid, ilots)}

GreedyCells(cells, i, ilots) == GreedyRange(cells, i, Len(cells), ilots)

----------------------------------------------------------------------------
(* Result conversion.                                                      *)

\* the ratio without the factor 100
UtilizationFraction(ilots) ==
    IF CalculateAvailableArea > 0
    THEN Rat(TotalIlotArea(ilots), CalculateAvailableArea)
    ELSE Zero

UtilizationPercentage(ilots) ==
    IF CalculateAvailableArea > 0
    THEN Rat(TotalIlotArea(ilots) * 100, CalculateAvailableArea)
    ELSE Zero

\* the entry of a result list for rect: its four fields, and their
\* denominator where they are not integers
WithDen(entry, rect) ==
    IF "den" \in DOMAIN rect
    THEN [k \in DOMAIN entry \cup {"den"} |->
             IF k = "den" THEN rect.den ELSE entry[k]]
    ELSE entry

\* corridor coordinates stay doubled in the result
LayoutToResult(layout, score) ==
    IF layout = None THEN [exception |-> "TypeError"]
    ELSE [ilots |-> [i \in 1..Len(layout.ilots) |->
                        WithDen(
                        [id |-> layout.ilots[i].id,
                         x |-> layout.ilots[i].rect.x,
                         y |-> layout.ilots[i].rect.y,
                         width |-> layout.ilots[i].rect.width,
                         height |-> layout.ilots[i].rect.height,
                         area |-> layout.ilots[i].area,
                         room_type |-> layout.ilots[i].room_type],
                        layout.ilots[i].rect)],
          corridors |-> [i \in 1..Len(layout.corridors) |->
                        WithDen(
                        [id |-> layout.corridors[i].id,
                         x |-> layout.corridors[i].rect.x,
                         y |-> layout.corridors[i].rect.y,
                         width |-> layout.corridors[i].rect.width,
                         height |-> layout.corridors[i].rect.height,
                         corridor_width |-> layout.corridors[i].width,
                         connectedIlots |-> layout.corridors[i].connected_ilots],
                        layout.corridors[i].rect)],
          utilization_percentage |-> UtilizationPercentage(layout.ilots),
          optimization_score |-> score]

Returned(res) == "ilots" \in DOMAIN res
Raised(res) == "exception" \in DOMAIN res

----------------------------------------------------------------------------
(* Inputs of one LayoutGenerator(floor_plan, profile, zones) and one       *)
(* generate_layout(algorithm) call.                                        *)

Bucket(lo, hi, pct) == [min_size |-> lo, max_size |-> hi, percentage |-> pct]

\* a zone whose payload is the four corners of [x0, x1] x [y0, y1]
Zone(type, format, x0, y0, x1, y1) ==
    [type |-> type,
     coordinates |-> [format |-> format,
                      points |-> <<Point(x0, y0), Point(x1, y0),
                                   Point(x1, y1), Point(x0, y1)>>]]

Scenario(w, h, sd, cw, zs, alg) ==
    [floor_plan |-> [width |-> w, height |-> h],
     profile |-> [size_distribution |-> sd, corridor_width |-> cw],
     zones |-> zs, algorithm |-> alg]

\* 8 x 4 floor whose right end is restricted: two admissible positions
StripZones == <<Zone("restricted", "dict", 6, 0, 8, 4)>>
\* 5 x 5 floor with two point zones: two admissible, diagonal positions
DiagonalZones == <<Zone("entrance", "list", 4, 1, 4, 1),
                   Zone("restricted", "dict", 1, 4, 1, 4),
                   Zone("wall", "dict", 0, 0, 5, 0)>>
\* a restricted zone lying outside a 10 x 4 floor
OutsideZones == <<Zone("restricted", "dict", 20, 0, 25, 4)>>
\* two identical restricted zones on a 45 x 15 floor
OverlappingZones == <<Zone("restricted", "dict", 26, 0, 45, 15),
                      Zone("exit", "list", 26, 0, 45, 15)>>
\* a restricted zone covering a whole 4 x 4 floor
CoveringZones == <<Zone("restricted", "list", 0, 0, 4, 4)>>

Scenarios ==
    { Scenario(8, 4, <<Bucket(4, 4, 100)>>, 2, StripZones, "genetic"),
      Scenario(5, 5, <<Bucket(4, 4, 100)>>, 1, DiagonalZones, "genetic"),
      Scenario(4, 4, <<Bucket(4, 4, 100)>>, 1, <<>>, "genetic"),
      Scenario(5, 4, <<Bucket(16, 16, 100)>>, 1, <<>>, "simulated_annealing"),
      Scenario(8, 4, <<Bucket(4, 4, 100)>>, 1, StripZones, "random"),
      Scenario(8, 4, <<Bucket(5, 4, 100)>>, 1, StripZones, "random"),
      Scenario(8, 6, <<Bucket(7, 7, 100)>>, 1, <<>>, "random"),
      Scenario(5, 5, <<Bucket(4, 4, 200)>>, 1, DiagonalZones, "random"),
      Scenario(10, 6, <<>>, 1, <<>>, "random"),
      Scenario(10, 4, <<Bucket(24, 24, 100)>>, 1, OutsideZones, "random"),
      Scenario(4, 4, <<Bucket(4, 4, 100)>>, 1, CoveringZones, "random"),
      Scenario(10, 6, <<Bucket(4, 4, 100), Bucket(6, 6, 50)>>, 1, <<>>, "random"),
      Scenario(45, 15, <<Bucket(15, 25, 100)>>, 2, <<>>, "greedy"),
      Scenario(45, 15, <<Bucket(15, 25, 100)>>, 2, OverlappingZones, "greedy"),
      Scenario(8, 4, <<Bucket(4, 4, 100)>>, 1, StripZones, "greedy") }

\* the generator after LayoutGenerator.__init__
InitGenerator(scenarios) ==
    \E sc \in scenarios :
        /\ floor_plan = sc.floor_plan
        /\ profile = sc.profile
        /\ zones = sc.zones
        /\ algorithm = sc.algorithm
        /\ walls = ZoneRectangles(sc.zones, {"wall"})
        /\ restricted_areas = ZoneRectangles(sc.zones, {"restricted"})
        /\ entrance_areas = ZoneRectangles(sc.zones, {"entrance", "exit"})

\* api_routes.py lines 385-387 and 408: the body of the request; the default
\* name "Layout <timestamp>" is one name
Request == [floor_plan_id |-> 1, profile_id |-> 1, name |-> "Layout"]

\* models.py line 46: keys the database may give the stored row
Keys == {1, 2}

\* api_routes.py line 402: the seconds the search took, as the clock saw them
GenerationTimes == {0, 1}

\* nothing called yet, no row stored, no answer given
InitSearch ==
    /\ strategy = "none"
    /\ population = <<>>
    /\ scored_population = <<>>
    /\ generation = 0
    /\ best_layout = None
    /\ best_score = Zero
    /\ evaluated_max = Zero
    /\ result = None
    /\ call = [fn |-> "none"]
    /\ response = None
    /\ placement = None

InitIdle ==
    /\ pc = "idle"
    /\ InitSearch

\* the state after LayoutGenerator.__init__, before generate_layout
InitWith(scenarios) ==
    /\ InitGenerator(scenarios)
    /\ InitIdle
    /\ rng = [seeded |-> FALSE]

InitEngine == InitWith(Scenarios)

\* a request has arrived: floor_plan, profile and zones are the rows its
\* ids name, algorithm is the one of its body; no generator is built yet
InitRequest(scenarios) ==
    /\ \E sc \in scenarios :
           /\ floor_plan = sc.floor_plan
           /\ profile = sc.profile
           /\ zones = sc.zones
           /\ algorithm = sc.algorithm
    /\ walls = <<>>
    /\ restricted_areas = <<>>
    /\ entrance_areas = <<>>
    /\ pc = "received"
    /\ InitSearch
    /\ rng = [seeded |-> FALSE]

Init == InitRequest(Scenarios)

generator == <<floor_plan, profile, zones, walls, restricted_areas, entrance_areas,
               algorithm>>
search == <<population, scored_population, generation, best_layout, best_score,
            evaluated_max>>
api == <<response, placement>>

----------------------------------------------------------------------------
(* generate_layout and the three strategies.                               *)

DispatchGreedyFallback(alg) ==
    IF alg = "genetic" THEN "genetic"
    ELSE IF alg = "greedy" THEN "greedy"
    ELSE IF alg = "random" THEN "random"
    ELSE "greedy"

Dispatch(alg) ==
    IF alg = "genetic" THEN "genetic"
    ELSE IF alg = "greedy" THEN "greedy"
    ELSE IF alg = "random" THEN "random"
    ELSE "genetic"

GenerateLayout ==
    /\ pc = "idle"
    /\ strategy' = Dispatch(algorithm)
    /\ pc' = Dispatch(algorithm)
    /\ UNCHANGED <<generator, rng, api, search, result, call>>

\* lines 92-103: the initial population and the empty best-ever pair
GeneticInit ==
    /\ pc = "genetic"
    /\ \E created \in [1..population_size -> CreateRandomLayout] :
           LET raising == {i \in 1..population_size : Raised(created[i])}
           IN  IF raising = {}
               THEN /\ population' = created
                    /\ pc' = IF generations > 0 THEN "evaluate" ELSE "return"
                    /\ result' = result
               \* the loop of lines 98-100 ends at the first exception
               ELSE /\ population' = <<>>
                    /\ pc' = "raised"
                    /\ result' = created[CHOOSE i \in raising :
                                             \A j \in raising : i <= j]
    /\ best_layout' = None
    /\ best_score' = Zero
    /\ generation' = 0
    /\ UNCHANGED <<generator, rng, api, strategy, scored_population, evaluated_max, call>>

\* lines 106-118: score, rank, track best
GeneticEvaluate ==
    /\ pc = "evaluate"
    /\ generation < generations
    /\ LET scored == SortByFitness([i \in 1..Len(population) |->
                        [individual |-> population[i],
                         score |-> EvaluateFitness(population[i])]])
           best == TrackBest(scored, best_layout, best_score)
       IN  /\ scored_population' = scored
           /\ best_layout' = best.layout
           /\ best_score' = best.score
           /\ evaluated_max' = RatMax(evaluated_max, scored[1].score)
    /\ pc' = "reproduce"
    /\ UNCHANGED <<generator, rng, api, strategy, population, generation, result, call>>

\* lines 120-139: elites, offspring, next generation
GeneticReproduce ==
    /\ pc = "reproduce"
    /\ LET elites == [i \in 1..elite_count |-> scored_population[i].individual]
       IN  \E children \in [1..(population_size - elite_count) ->
                               Offspring(scored_population)] :
               population' = elites \o children
    /\ scored_population' = <<>>    \* dead from here on, rebuilt at line 107
    /\ generation' = generation + 1
    /\ pc' = IF generation + 1 < generations THEN "evaluate" ELSE "return"
    /\ UNCHANGED <<generator, rng, api, strategy, best_layout, best_score,
                   evaluated_max, result, call>>

\* line 141
GeneticReturn ==
    /\ pc = "return"
    /\ result' = LayoutToResult(best_layout, best_score)
    /\ pc' = IF Raised(result') THEN "raised" ELSE "done"
    /\ UNCHANGED <<generator, rng, api, strategy, search, call>>

\* lines 490-522
GreedyPlacement ==
    /\ pc = "greedy"
    /\ \E ilots \in GreedyCells(GridCells, 1, <<>>) :
           result' = LayoutToResult(Layout(ilots), EvaluateFitness(Layout(ilots)))
    /\ pc' = "done"
    /\ UNCHANGED <<generator, rng, api, strategy, search, call>>

\* lines 524-528
RandomPlacement ==
    /\ pc = "random"
    /\ \E layout \in CreateRandomLayout :
           IF Raised(layout)
           THEN result' = layout /\ pc' = "raised"
           ELSE /\ result' = LayoutToResult(layout, EvaluateFitness(layout))
                /\ pc' = "done"
    /\ UNCHANGED <<generator, rng, api, strategy, search, call>>

\* api_routes.py lines 385-397: the handler reads the body, looks up the
\* floor plan, the profile and the zones and builds the generator
\* (layout_generator.py lines 29-37) without looking at their values; a
\* body that is not an object or a row that is missing raises, which lines
\* 435-437 answer
ApiLookup ==
    /\ pc = "received"
    /\ \/ /\ walls' = ZoneRectangles(zones, {"wall"})
          /\ restricted_areas' = ZoneRectangles(zones, {"restricted"})
          /\ entrance_areas' = ZoneRectangles(zones, {"entrance", "exit"})
          /\ pc' = "idle"
          /\ UNCHANGED response
       \/ /\ response' = [status |-> 500, error |-> "Layout generation failed"]
          /\ pc' = "responded"
          /\ UNCHANGED <<walls, restricted_areas, entrance_areas>>
    /\ UNCHANGED <<floor_plan, profile, zones, algorithm, rng, strategy, search,
                   result, call, placement>>

\* api_routes.py lines 402-421: the handler measures the time, builds the
\* row and commits it; the database gives the row its key
ApiCommit ==
    /\ pc = "done"
    /\ \E generation_time \in GenerationTimes, id \in Keys :
           placement' =
               [id |-> id,
                floor_plan_id |-> Request.floor_plan_id,
                configuration_id |-> Request.profile_id,
                name |-> Request.name,
                total_ilots |-> Len(result.ilots),
                total_area |-> SumSeq([i \in 1..Len(result.ilots) |->
                                          result.ilots[i].area]),
                utilization_percentage |-> result.utilization_percentage,
                ilot_data |-> result.ilots,
                corridor_data |-> result.corridors,
                optimization_score |-> result.optimization_score,
                generation_time |-> generation_time,
                algorithm |-> algorithm,
                status |-> "completed"]
    /\ pc' = "committed"
    /\ UNCHANGED <<generator, rng, strategy, search, result, call, response>>

\* api_routes.py lines 421 and 435-437: db.session.commit() raises (the
\* database is unreachable, or the floor plan or the profile of the row is
\* gone); the row is not stored
ApiCommitFail ==
    /\ pc = "done"
    /\ response' = [status |-> 500, error |-> "Layout generation failed"]
    /\ pc' = "responded"
    /\ UNCHANGED <<generator, rng, strategy, search, result, call, placement>>

\* api_routes.py lines 423-433: the answer reads placement.id, which the
\* session reloads after the commit; the reload raises when the row has
\* been deleted meanwhile or the database is unreachable (lines 435-437)
ApiAnswer ==
    /\ pc = "committed"
    /\ response' \in
           {[status |-> 201, id |-> placement.id,
             layout |-> [ilots |-> result.ilots,
                         corridors |-> result.corridors,
                         utilization_percentage |-> result.utilization_percentage,
                         optimization_score |-> result.optimization_score,
                         generation_time |-> placement.generation_time,
                         algorithm |-> algorithm]],
            [status |-> 500, error |-> "Layout generation failed"]}
    /\ pc' = "responded"
    /\ UNCHANGED <<generator, rng, strategy, search, result, call, placement>>

\* api_routes.py lines 435-437: any exception becomes a 500 answer
ApiFail ==
    /\ pc = "raised"
    /\ response' = [status |-> 500, error |-> "Layout generation failed"]
    /\ pc' = "responded"
    /\ UNCHANGED <<generator, rng, strategy, search, result, call, placement>>

Next ==
    \/ ApiLookup
    \/ GenerateLayout
    \/ GeneticInit
    \/ GeneticEvaluate
    \/ GeneticReproduce
    \/ GeneticReturn
    \/ GreedyPlacement
    \/ RandomPlacement
    \/ ApiCommit
    \/ ApiCommitFail
    \/ ApiAnswer
    \/ ApiFail

Spec == Init /\ [][Next]_vars

\* one generate_layout call on a generator of its own
SpecEngine ==
    InitEngine /\ [][GenerateLayout \/ GeneticInit \/ GeneticEvaluate \/ GeneticReproduce
                 \/ GeneticReturn \/ GreedyPlacement \/ RandomPlacement]_vars

----------------------------------------------------------------------------
(* Pure functions applied to inputs of their own.                          *)

UnitUniverse ==
    {Ilot(id, Rectangle(x, 0, s[1], s[2]), s[1] * s[2], 4, 4) :
        id \in {1, 2}, x \in {0, 3}, s \in {<<2, 2>>, <<6, 4>>}}

RECURSIVE SeqsUpTo(_, _)
SeqsUpTo(S, n) ==
    IF n = 0 THEN {<<>>}
    ELSE LET shorter == SeqsUpTo(S, n - 1)
         IN  shorter \cup {Append(q, v) : q \in shorter, v \in S}

\* a corridor that names more units than any layout of the universe holds
PhantomCorridor ==
    [id |-> [kind |-> "h_corridor", n |-> 1],
     rect |-> Rectangle(0, 0, 2 * floor_plan.width, 2 * profile.corridor_width),
     width |-> profile.corridor_width,
     connected_ilots |-> <<1, 2, 3>>]

ArbitraryLayouts ==
    UNION {{[ilots |-> ilots, corridors |-> <<>>],
            [ilots |-> ilots, corridors |-> GenerateCorridors(ilots)],
            [ilots |-> ilots, corridors |-> <<PhantomCorridor>>]} :
           ilots \in SeqsUpTo(UnitUniverse, MaxUnits)}

CallEvaluateFitness ==
    /\ pc = "idle" /\ call.fn = "none"
    /\ \E layout \in ArbitraryLayouts :
           call' = [fn |-> "evaluate_fitness", layout |-> layout,
                    ret |-> EvaluateFitness(layout)]
    /\ UNCHANGED <<generator, rng, api, pc, strategy, search, result>>

SpecFitness == InitEngine /\ [][CallEvaluateFitness]_vars

RectUniverse ==
    {Rectangle(x, y, w, h) : x \in {0, 2}, y \in {0, 2}, w \in {0, 1, 3}, h \in {0, 1, 3}}

CallIntersects ==
    /\ pc = "idle" /\ call.fn = "none"
    /\ \E a \in RectUniverse, b \in RectUniverse :
           call' = [fn |-> "intersects", self |-> a, other |-> b,
                    ret |-> Intersects(a, b)]
    /\ UNCHANGED <<generator, rng, api, pc, strategy, search, result>>

InitGeometry == InitWith({Scenario(5, 4, <<Bucket(4, 4, 100)>>, 1, <<>>, "genetic")})

SpecGeometry == InitGeometry /\ [][CallIntersects]_vars

\* candidates and placed-unit lists handed to _is_valid_placement
CandidateUniverse ==
    {Rectangle(x, y, w, h) : x \in {-1, 0, 3, 6}, y \in {0, 3}, w \in {2, 3}, h \in {1, 4}}

PlacedUniverse ==
    {Ilot(1, Rectangle(x, y, 2, 2), 4, 4, 4) : x \in {0, 3}, y \in {0, 3}}

CallIsValidPlacement ==
    /\ pc = "idle" /\ call.fn = "none"
    /\ \E rect \in CandidateUniverse, existing_ilots \in SeqsUpTo(PlacedUniverse, MaxUnits) :
           call' = [fn |-> "is_valid_placement", rect |-> rect,
                    existing_ilots |-> existing_ilots,
                    ret |-> IsValidPlacement(rect, existing_ilots)]
    /\ UNCHANGED <<generator, rng, api, pc, strategy, search, result>>

InitValidator ==
    InitWith({Scenario(8, 4, <<Bucket(4, 4, 100)>>, 1, StripZones, "random"),
              Scenario(5, 5, <<Bucket(4, 4, 100)>>, 1, DiagonalZones, "random"),
              Scenario(5, 4, <<Bucket(4, 4, 100)>>, 1, <<>>, "random")})

SpecValidator == InitValidator /\ [][CallIsValidPlacement]_vars

\* Scenario A: a 100 x 100 floor without zones, one bucket {15, 25, 100},
\* the random strategy on a seeded run.  The corridor width 1.5 is not an
\* integer: the runs take the integers on either side of it.
InitScenarioA ==
    /\ InitGenerator({Scenario(100, 100, <<Bucket(15, 25, 100)>>, cw, <<>>, "random") :
                         cw \in {1, 2}})
    /\ InitIdle
    /\ \E seed \in Seeds : rng = [seeded |-> TRUE, seed |-> seed]

SpecScenarioA ==
    InitScenarioA /\ [][GenerateLayout \/ RandomPlacement \/ ApiCommit \/ ApiAnswer]_vars

\* Scenario D and a floor with more than 50 grid points, greedy, seeded runs
InitGreedyGrid ==
    /\ InitGenerator({Scenario(90, 90, <<Bucket(15, 25, 100)>>, 2, <<>>, "greedy"),
                      Scenario(240, 210, <<Bucket(15, 25, 100)>>, 2, <<>>, "greedy")})
    /\ InitIdle
    /\ \E seed \in Seeds : rng = [seeded |-> TRUE, seed |-> seed]

SpecGreedyGrid ==
    InitGreedyGrid /\ [][GenerateLayout \/ GreedyPlacement \/ ApiCommit \/ ApiAnswer]_vars

\* payloads of zones: four corners, five points of an L, a triangle, nothing
ZonePayloads ==
    { [format |-> "dict",
       points |-> <<Point(1, 1), Point(3, 1), Point(3, 2), Point(1, 2)>>],
      [format |-> "list",
       points |-> <<Point(0, 0), Point(4, 0), Point(4, 1), Point(1, 1), Point(1, 5)>>],
      [format |-> "dict", points |-> <<Point(0, 0), Point(4, 0), Point(0, 4)>>],
      [format |-> "list", points |-> <<>>] }

ZoneUniverse ==
    {[type |-> t, coordinates |-> c] :
        t \in {"wall", "restricted", "entrance", "exit"}, c \in ZonePayloads}

InitZones ==
    InitWith({Scenario(8, 6, <<Bucket(4, 4, 100)>>, 1, zs, "random") :
                 zs \in SeqsUpTo(ZoneUniverse, 2)})

\* payloads handed to _coords_to_rectangles on its own
PayloadUniverse ==
    {[format |-> f, points |-> pts] :
        f \in {"dict", "list"},
        pts \in SeqsUpTo({Point(0, 0), Point(4, 1), Point(2, 5)}, 4)
                \cup {<<Point(2, 2), Point(0, 3), Point(4, 1), Point(2, 5), Point(3, 0)>>}}

CallCoordsToRectangles ==
    /\ pc = "idle" /\ call.fn = "none"
    /\ \E coordinates \in PayloadUniverse :
           call' = [fn |-> "coords_to_rectangles", coordinates |-> coordinates,
                    ret |-> CoordsToRectangles(coordinates)]
    /\ UNCHANGED <<generator, rng, api, pc, strategy, search, result>>

SpecZones == InitZones /\ [][CallCoordsToRectangles]_vars

\* wall zones a second generator is built with
WallVariants ==
    { <<>>,
      <<Zone("wall", "dict", 0, 0, 5, 0)>>,
      <<Zone("wall", "list", 2, 0, 3, 4), Zone("wall", "dict", 0, 3, 8, 3)>> }

\* _is_valid_placement and _calculate_available_area on the generator
CallOnGenerator ==
    /\ pc = "idle" /\ call.fn = "none"
    /\ \E rect \in CandidateUniverse, existing_ilots \in SeqsUpTo(PlacedUniverse, MaxUnits) :
           call' = [fn |-> "placement_and_area", generators |-> 1,
                    rect |-> rect, existing_ilots |-> existing_ilots,
                    ret |-> IsValidPlacement(rect, existing_ilots),
                    available_area |-> CalculateAvailableArea]
    /\ UNCHANGED <<generator, rng, api, pc, strategy, search, result>>

\* LayoutGenerator(floor_plan, profile, zones') for zones' that differ from
\* zones in the wall zones only, and the same two calls on the new generator
CallOnOtherWalls ==
    /\ pc = "idle" /\ call.fn = "placement_and_area" /\ call.generators = 1
    /\ \E other_walls \in WallVariants :
           zones' = SelectSeq(zones, LAMBDA z : z.type # "wall") \o other_walls
    /\ zones' # zones
    /\ walls' = ZoneRectangles(zones', {"wall"})
    /\ restricted_areas' = ZoneRectangles(zones', {"restricted"})
    /\ entrance_areas' = ZoneRectangles(zones', {"entrance", "exit"})
    /\ UNCHANGED <<floor_plan, profile, algorithm>>
    /\ \E rect \in {call.rect}, existing_ilots \in {call.existing_ilots} :
           call' = [fn |-> "placement_and_area", generators |-> 2,
                    rect |-> rect, existing_ilots |-> existing_ilots,
                    ret |-> IsValidPlacement(rect, existing_ilots)',
                    available_area |-> CalculateAvailableArea']
    /\ UNCHANGED <<rng, api, pc, strategy, search, result>>

SpecWalls == InitValidator /\ [][CallOnGenerator \/ CallOnOtherWalls]_vars

\* requests whose stored floor plan or profile makes the geometry undefined
\* (the last three scenarios of MalformedScenarios have buckets whose areas
\* are not positive instead)
Malformed ==
    \/ floor_plan.width < 0
    \/ floor_plan.height < 0
    \/ profile.corridor_width <= 0

MalformedScenarios ==
    { Scenario(-8, 4, <<Bucket(4, 4, 100)>>, 1, <<>>, "random"),
      Scenario(8, -4, <<Bucket(4, 4, 100)>>, 1, <<>>, "greedy"),
      Scenario(-8, 4, <<Bucket(4, 4, 100)>>, 1, <<>>, "genetic"),
      Scenario(10, 6, <<Bucket(4, 4, 100), Bucket(6, 6, 50)>>, 0, <<>>, "random"),
      Scenario(45, 15, <<Bucket(15, 25, 100)>>, -1, <<>>, "greedy"),
      Scenario(8, 4, <<Bucket(0, 0, 100)>>, 1, <<>>, "random"),
      Scenario(8, 4, <<Bucket(4, -4, 100)>>, 1, StripZones, "random"),
      Scenario(8, 4, <<Bucket(-4, -4, 100)>>, 1, StripZones, "genetic") }

InitMalformed == InitRequest(MalformedScenarios)

SpecMalformed == InitMalformed /\ [][Next]_vars

\* ranked populations handed to _tournament_selection on its own: up to
\* MaxRanked entries, scores descending, the individual of entry i holds one
\* unit with id i
MaxRanked == 7
RankedScores == <<One, Rat(1, 2), Rat(1, 4), Zero>>

RankedIndividual(i) ==
    [ilots |-> <<Ilot(i, Rectangle(0, 0, 2, 2), 4, 4, 4)>>, corridors |-> <<>>]

RankedPopulations ==
    {[i \in 1..Len(q) |-> [individual |-> RankedIndividual(i),
                           score |-> RankedScores[q[i]]]] :
        q \in {q \in SeqsUpTo(1..Len(RankedScores), MaxRanked) :
                  q # <<>> /\ \A i \in 1..(Len(q) - 1) : q[i] <= q[i + 1]}}

CallTournamentSelection ==
    /\ pc = "idle" /\ call.fn = "none"
    /\ \E scored \in RankedPopulations :
           \E ret \in TournamentSelection(scored) :
               call' = [fn |-> "tournament_selection", scored_population |-> scored,
                        ret |-> ret]
    /\ UNCHANGED <<generator, rng, api, pc, strategy, search, result>>

SpecTournament == InitGeometry /\ [][CallTournamentSelection]_vars

\* parents handed to _crossover on its own: any unit lists, overlapping
\* ones included, with the corridors the synthesiser gives them
CrossoverParents == {Layout(ilots) : ilots \in SeqsUpTo(UnitUniverse, MaxUnits)}

CallCrossover ==
    /\ pc = "idle" /\ call.fn = "none"
    /\ \E parent1 \in CrossoverParents, parent2 \in CrossoverParents :
           call' = [fn |-> "crossover", parent1 |-> parent1, parent2 |-> parent2,
                    ret |-> Crossover(parent1, parent2)]
    /\ UNCHANGED <<generator, rng, api, pc, strategy, search, result>>

SpecCrossover == InitGeometry /\ [][CallCrossover]_vars

\* offsets the two draws of _mutate return when it is called on its own
MutationOffsets == {-5, -3, 0, 2, 5}

\* _mutate on any unit list: no unit, or one outcome of the three draws
CallMutate ==
    /\ pc = "idle" /\ call.fn = "none"
    /\ \E individual \in CrossoverParents :
           IF individual.ilots = <<>>
           THEN call' = [fn |-> "mutate", individual |-> individual,
                         ret |-> Layout(individual.ilots)]
           ELSE \E mutate_idx \in 1..Len(individual.ilots),
                   dx \in MutationOffsets, dy \in MutationOffsets :
                    call' = [fn |-> "mutate", individual |-> individual,
                             mutate_idx |-> mutate_idx, dx |-> dx, dy |-> dy,
                             ret |-> MutateAt(individual, mutate_idx, dx, dy)]
    /\ UNCHANGED <<generator, rng, api, pc, strategy, search, result>>

SpecMutate == InitValidator /\ [][CallMutate]_vars

\* unit lists handed to _generate_corridors on its own: up to
\* MaxCorridorUnits units inside a 12 x 6 floor, corridor width 1 or 2
MaxCorridorUnits == 3

CorridorUnits ==
    {Ilot(1, Rectangle(x, y, s, s), s * s, 4, 9) :
        x \in {0, 3, 7}, y \in {0, 3}, s \in {2, 3}}

CallGenerateCorridors ==
    /\ pc = "idle" /\ call.fn = "none"
    /\ \E ilots \in SeqsUpTo(CorridorUnits, MaxCorridorUnits) :
           call' = [fn |-> "generate_corridors", ilots |-> ilots,
                    ret |-> GenerateCorridors(ilots)]
    /\ UNCHANGED <<generator, rng, api, pc, strategy, search, result>>

InitCorridors ==
    InitWith({Scenario(12, 6, <<Bucket(4, 9, 100)>>, cw, <<>>, "random") : cw \in {1, 2}})

SpecCorridors == InitCorridors /\ [][CallGenerateCorridors]_vars

\* _evaluate_size_distribution on any unit list, for profiles whose buckets
\* hold all, some or none of the unit areas (4 and 24) of the universe
CallEvaluateSizeDistribution ==
    /\ pc = "idle" /\ call.fn = "none"
    /\ \E ilots \in SeqsUpTo(UnitUniverse, MaxUnits) :
           call' = [fn |-> "evaluate_size_distribution", ilots |-> ilots,
                    ret |-> EvaluateSizeDistribution(ilots)]
    /\ UNCHANGED <<generator, rng, api, pc, strategy, search, result>>

InitSizes ==
    InitWith({Scenario(8, 4, sd, 1, <<>>, "random") :
                 sd \in { <<Bucket(4, 4, 100)>>,
                          <<Bucket(4, 4, 50), Bucket(24, 24, 50)>>,
                          <<Bucket(1, 3, 100)>> }})

SpecSizes == InitSizes /\ [][CallEvaluateSizeDistribution]_vars

\* rectangles with non-negative extents that overlap, touch along an edge,
\* touch at a corner, or lie apart
ClosedRectUniverse ==
    {Rectangle(x, y, w, h) : x \in {0, 2, 3}, y \in {0, 2}, w \in {0, 2}, h \in {0, 2}}

CallIntersectsClosed ==
    /\ pc = "idle" /\ call.fn = "none"
    /\ \E a \in ClosedRectUniverse, b \in ClosedRectUniverse :
           call' = [fn |-> "intersects", self |-> a, other |-> b,
                    ret |-> Intersects(a, b)]
    /\ UNCHANGED <<generator, rng, api, pc, strategy, search, result>>

SpecClosed == InitValidator /\ [][CallIntersectsClosed \/ CallIsValidPlacement]_vars

----------------------------------------------------------------------------
(* Properties.                                                             *)

ResultRect(u) ==
    IF "den" \in DOMAIN u
    THEN [x |-> u.x, y |-> u.y, width |-> u.width, height |-> u.height,
          den |-> u.den]
    ELSE Rectangle(u.x, u.y, u.width, u.height)
KnownAlgorithms == {"genetic", "greedy", "random"}
Finished == pc \in {"done", "raised"}

\* C1: in every returned layout no two distinct units intersect (touching
\* included), no unit intersects a restricted or entrance/exit rectangle, and
\* every unit lies inside [0, floor.width] x [0, floor.height].
NoOverlapInvariant ==
    Returned(result) =>
        LET us == result.ilots
        IN  /\ \A i, j \in 1..Len(us) :
                   i # j => ~Intersects(ResultRect(us[i]), ResultRect(us[j]))
            /\ \A i \in 1..Len(us) :
                   /\ \A k \in 1..Len(restricted_areas) :
                          ~Intersects(ResultRect(us[i]), restricted_areas[k])
                   /\ \A k \in 1..Len(entrance_areas) :
                          ~Intersects(ResultRect(us[i]), entrance_areas[k])
                   /\ 0 <= us[i].x /\ 0 <= us[i].y
                   /\ us[i].x + us[i].width <= floor_plan.width * Den(us[i])
                   /\ us[i].y + us[i].height <= floor_plan.height * Den(us[i])

\* a genetic run on a floor with a restricted zone returned a crossover child
NoOverlapWitness ==
    /\ pc = "done" /\ strategy = "genetic"
    /\ restricted_areas # <<>>
    /\ Len(result.ilots) >= 2

\* C2: _evaluate_fitness returns a score in [0, 1] for any layout, and
\* exactly 0 for a layout without units.
ScoreBounded ==
    call.fn = "evaluate_fitness" =>
        /\ RatLeq(Zero, call.ret) /\ RatLeq(call.ret, One)
        /\ (call.layout.ilots = <<>> => call.ret = Zero)

\* a layout whose weighted sum exceeds 1 was scored
ScoreBoundedWitness ==
    /\ call.fn = "evaluate_fitness"
    /\ call.layout.ilots # <<>>
    /\ RatLt(One, RawFitness(call.layout))
    /\ call.ret = One

\* C3: the tracked best-ever score never decreases from one step of the
\* genetic search to the next.
BestScoreMonotone == [][RatLeq(best_score, best_score')]_vars

\* the best-ever pair was replaced in generation 1 by a child of generation 0
BestScoreWitness ==
    /\ pc = "reproduce" /\ generation = 1
    /\ best_layout # None
    /\ Len(best_layout.ilots) = 2
    /\ RatLt(Zero, best_score)

\* C4: with available area > 0 the utilization_percentage of every returned
\* result is in [0, 100], whatever the zones.
UtilizationBound ==
    (Returned(result) /\ CalculateAvailableArea > 0) =>
        /\ RatLeq(Zero, result.utilization_percentage)
        /\ RatLeq(result.utilization_percentage, Rat(100, 1))

\* C5: the genetic search ends after exactly `generations` generations and
\* returns the best-ever layout, whose score is the maximum of all scores
\* evaluated.
GeneticReturnsBestEver ==
    (strategy = "genetic" /\ Finished) =>
        /\ generation = generations
        /\ Returned(result)
        /\ best_layout # None
        /\ result = LayoutToResult(best_layout, best_score)
        /\ result.optimization_score = evaluated_max

\* C6: a genetic run whose individuals are all empty layouts does not raise
\* and returns zero units, score 0 and utilization 0.  (Crossover and
\* mutation of empty layouts are empty and no operator removes a unit, so
\* the population is all empty at the end iff it was at the start.)
EmptyPopulationDegrades ==
    (strategy = "genetic" /\ Finished
       /\ \A i \in 1..Len(population) : population[i].ilots = <<>>) =>
        /\ Returned(result)
        /\ result.ilots = <<>>
        /\ result.optimization_score = Zero
        /\ result.utilization_percentage = Zero

\* C7: with an empty size-bucket list the returned layout has zero units,
\* score 0 and utilization 0.
EmptyBucketsEmptyLayout ==
    (profile.size_distribution = <<>> /\ Finished) =>
        /\ Returned(result)
        /\ result.ilots = <<>>
        /\ result.optimization_score = Zero
        /\ result.utilization_percentage = Zero

\* C8: unit ids are unique within every returned layout.
UniqueIds ==
    Returned(result) =>
        \A i, j \in 1..Len(result.ilots) :
            i # j => result.ilots[i].id # result.ilots[j].id

\* C9: an algorithm value other than genetic, greedy or random runs the
\* genetic search: only genetic steps are taken and the result is the one
\* the genetic search returns.
UnknownFallsBackToGenetic ==
    (algorithm \notin KnownAlgorithms /\ pc # "idle") =>
        /\ strategy = "genetic"
        /\ pc \in {"genetic", "evaluate", "reproduce", "return", "done", "raised", "committed",
                  "responded"}
        /\ Finished => result = LayoutToResult(best_layout, best_score)

\* a call with an unknown algorithm returned a non-empty layout
UnknownFallsBackWitness ==
    /\ algorithm \notin KnownAlgorithms
    /\ pc = "done"
    /\ generation = generations
    /\ Len(result.ilots) >= 1

\* C10: a.intersects(b) equals b.intersects(a) for all rectangles with
\* non-negative width and height.
IntersectsSymmetric ==
    call.fn = "intersects" => call.ret = Intersects(call.other, call.self)

\* two different rectangles, one strictly beside the other, were compared
IntersectsSymmetricWitness ==
    /\ call.fn = "intersects"
    /\ call.self # call.other
    /\ call.self.x + call.self.width < call.other.x
    /\ call.ret = FALSE

\* the closed rectangles a and b have a point in common
SharePoint(a, b) ==
    /\ Max2(a.x, b.x) <= Min2(a.x + a.width, b.x + b.width)
    /\ Max2(a.y, b.y) <= Min2(a.y + a.height, b.y + b.height)

\* C11: _is_valid_placement(candidate, placed_units) is true iff the
\* candidate lies in [0, floor.width] x [0, floor.height] (edges included)
\* and has no point in common with a placed unit, a restricted rectangle or
\* an entrance/exit rectangle; the call leaves the zone lists as they were.
ValidPlacementContract ==
    /\ [](call.fn = "is_valid_placement" =>
            (call.ret <=>
                /\ 0 <= call.rect.x /\ 0 <= call.rect.y
                /\ call.rect.x + call.rect.width <= floor_plan.width
                /\ call.rect.y + call.rect.height <= floor_plan.height
                /\ \A i \in 1..Len(call.existing_ilots) :
                       ~SharePoint(call.rect, call.existing_ilots[i].rect)
                /\ \A i \in 1..Len(restricted_areas) :
                       ~SharePoint(call.rect, restricted_areas[i])
                /\ \A i \in 1..Len(entrance_areas) :
                       ~SharePoint(call.rect, entrance_areas[i])))
    /\ [][call'.fn = "is_valid_placement" =>
            UNCHANGED <<walls, restricted_areas, entrance_areas>>]_vars

\* a candidate touching the far floor edges was accepted next to a placed
\* unit on a floor with zones
ValidPlacementWitness ==
    /\ call.fn = "is_valid_placement"
    /\ call.ret
    /\ call.existing_ilots # <<>>
    /\ restricted_areas # <<>>
    /\ call.rect.y + call.rect.height = floor_plan.height

\* C12 as stated: on Scenario A the random strategy returns at least 1 and at
\* most 33 units, mutually non-overlapping, with utilization > 0.
ScenarioAUpTo33 ==
    (pc = "done" /\ floor_plan.width = 100) =>
        /\ Returned(result)
        /\ 1 <= Len(result.ilots) /\ Len(result.ilots) <= 33
        /\ \A i, j \in 1..Len(result.ilots) :
               i # j => ~SharePoint(ResultRect(result.ilots[i]), ResultRect(result.ilots[j]))
        /\ RatLt(Zero, result.utilization_percentage)

\* C12 amended: on Scenario A the random strategy returns at least 1 and at
\* most 100 units (one per placement slot, min(100, 10000/20) slots),
\* mutually non-overlapping, with utilization > 0.
ScenarioAUpTo100 ==
    (pc = "done" /\ floor_plan.width = 100) =>
        /\ Returned(result)
        /\ 1 <= Len(result.ilots) /\ Len(result.ilots) <= 100
        /\ \A i, j \in 1..Len(result.ilots) :
               i # j => ~SharePoint(ResultRect(result.ilots[i]), ResultRect(result.ilots[j]))
        /\ RatLt(Zero, result.utilization_percentage)

\* every one of the 100 slots of Scenario A placed its unit
ScenarioAWitness ==
    /\ pc = "done" /\ floor_plan.width = 100
    /\ Len(result.ilots) = 100

\* C13: the random strategy gives each bucket b of the list it iterates
\* floor(T * percentage_b / 100) slots, T = min(100, floor(available / 20)),
\* without normalising the percentages; it never raises, returns no more
\* units than there are slots, and of a bucket whose size range no other
\* bucket shares no more units than that bucket has slots.
RandomSlotsRespected ==
    (strategy = "random" /\ Finished) =>
        LET sd == IF profile.size_distribution # <<>> THEN profile.size_distribution
                  ELSE DefaultSizeDistribution
            available == Max2(0, floor_plan.width * floor_plan.height
                                 - SumAreas(restricted_areas) - SumAreas(entrance_areas))
            T == Min2(100, available \div 20)
            slots(k) == (T * sd[k].percentage) \div 100
            inrange(k) == {i \in 1..Len(result.ilots) :
                              /\ sd[k].min_size <= result.ilots[i].area
                              /\ result.ilots[i].area <= sd[k].max_size}
            apart(k) == \A j \in 1..Len(sd) :
                           j # k => \/ sd[j].max_size < sd[k].min_size
                                    \/ sd[k].max_size < sd[j].min_size
        IN  /\ Returned(result)
            /\ Len(result.ilots) <= SumSeq([k \in 1..Len(sd) |-> slots(k)])
            /\ \A k \in 1..Len(sd) : apart(k) => Cardinality(inrange(k)) <= slots(k)

\* percentages 100 + 50: four units returned where the estimate T is 3
RandomSlotsWitness ==
    /\ strategy = "random" /\ pc = "done"
    /\ Len(profile.size_distribution) = 2
    /\ profile.size_distribution[1].percentage + profile.size_distribution[2].percentage = 150
    /\ Len(result.ilots) = 4
    /\ TotalIlots = 3

\* the grid points inside the floor
GridPoints ==
    {p \in (0..(floor_plan.width - 1)) \X (0..(floor_plan.height - 1)) :
        p[1] % 30 = 0 /\ p[2] % 30 = 0}

\* C14: the greedy strategy returns units that sit on grid points (x and y
\* multiples of 30 inside the floor), at most one per grid point and in
\* row-major order, at most min(50, number of grid points) of them; on a
\* 90 x 90 floor at most 9.
GreedyGridContract ==
    (strategy = "greedy" /\ pc = "done") =>
        LET us == result.ilots
        IN  /\ Len(us) <= Min2(50, Cardinality(GridPoints))
            /\ \A i \in 1..Len(us) : <<us[i].x, us[i].y>> \in GridPoints
            /\ \A i, j \in 1..Len(us) :
                   i < j => \/ us[i].y < us[j].y
                            \/ (us[i].y = us[j].y /\ us[i].x < us[j].x)
            /\ (floor_plan.width = 90 /\ floor_plan.height = 90) => Len(us) <= 9

\* the sweep stopped at 50 units on a floor with 56 grid points
GreedyGridWitness ==
    /\ strategy = "greedy" /\ pc = "done"
    /\ Cardinality(GridPoints) = 56
    /\ Len(result.ilots) = 50

\* C15: a request with a negative floor width or height or a corridor width
\* <= 0 is rejected before the optimizer runs: no strategy is executed, no
\* layout is returned or stored, and the answer is an error.
MalformedRejected ==
    Malformed =>
        /\ strategy = "none"
        /\ pc \in {"received", "idle", "responded"}
        /\ result = None
        /\ placement = None
        /\ pc = "responded" => response.status # 201

\* C16: two generators that differ only in their wall zones give the same
\* _is_valid_placement answer for the same candidate and placed units and
\* the same _calculate_available_area.
WallsIrrelevant ==
    [][(call.fn = "placement_and_area" /\ call'.fn = "placement_and_area") =>
          /\ call'.ret = call.ret
          /\ call'.available_area = call.available_area]_vars

\* the second generator has a wall that the accepted candidate intersects
WallsIrrelevantWitness ==
    /\ call.fn = "placement_and_area" /\ call.generators = 2
    /\ call.ret
    /\ \E i \in 1..Len(walls) : SharePoint(call.rect, walls[i]) /\ Area(walls[i]) > 0
    /\ call.available_area > 0

\* r is the smallest axis-aligned rectangle that holds every point of pts
IsBoundingBox(r, pts) ==
    /\ \A i \in 1..Len(pts) :
           /\ r.x <= pts[i].x /\ pts[i].x <= r.x + r.width
           /\ r.y <= pts[i].y /\ pts[i].y <= r.y + r.height
    /\ \E i \in 1..Len(pts) : pts[i].x = r.x
    /\ \E i \in 1..Len(pts) : pts[i].x = r.x + r.width
    /\ \E i \in 1..Len(pts) : pts[i].y = r.y
    /\ \E i \in 1..Len(pts) : pts[i].y = r.y + r.height

\* list holds, in zone order, the bounding box of every zone of one of the
\* types that has at least 4 points, and nothing else
HoldsBoxesOf(list, types) ==
    LET idx == SelectSeq([i \in 1..Len(zones) |-> i],
                   LAMBDA i : /\ zones[i].type \in types
                              /\ Len(zones[i].coordinates.points) >= 4)
    IN  /\ Len(list) = Len(idx)
        /\ \A k \in 1..Len(idx) :
               IsBoundingBox(list[k], zones[idx[k]].coordinates.points)

\* C17: _coords_to_rectangles returns no rectangle for fewer than 4 points
\* and otherwise exactly the bounding box of all points, for both payload
\* forms; the generator's lists hold the boxes of the zones of their kind,
\* 'entrance' and 'exit' sharing one list.
CoordsContract ==
    /\ call.fn = "coords_to_rectangles" =>
           IF Len(call.coordinates.points) < 4 THEN call.ret = <<>>
           ELSE /\ Len(call.ret) = 1
                /\ IsBoundingBox(call.ret[1], call.coordinates.points)
    /\ HoldsBoxesOf(walls, {"wall"})
    /\ HoldsBoxesOf(restricted_areas, {"restricted"})
    /\ HoldsBoxesOf(entrance_areas, {"entrance", "exit"})

\* five points gave their bounding box, on a generator whose entrance list
\* holds the box of an entrance zone and the box of an exit zone
CoordsWitness ==
    /\ call.fn = "coords_to_rectangles"
    /\ Len(call.coordinates.points) = 5
    /\ call.ret = <<Rectangle(0, 0, 4, 5)>>
    /\ Len(entrance_areas) = 2
    /\ {zones[i].type : i \in 1..Len(zones)} = {"entrance", "exit"}

\* C18: the best-ever pair changes only in the step that has scored and
\* ranked the whole population of a generation (once per generation, the
\* generation counter moves only with reproduction), stays as it is through
\* reproduction, and its score is always the fitness of its layout, or the
\* pair is the initial (no layout, 0).
BestPairCheckpointSafe ==
    /\ [](IF best_layout = None THEN best_score = Zero
          ELSE best_score = EvaluateFitness(best_layout))
    /\ [][<<best_layout, best_score>>' # <<best_layout, best_score>> =>
            /\ pc = "evaluate" /\ pc' = "reproduce"
            /\ generation' = generation
            /\ Len(scored_population') = Len(population)
            /\ \A i \in 1..Len(population) :
                   \E k \in 1..Len(scored_population') :
                       /\ scored_population'[k].individual = population[i]
                       /\ scored_population'[k].score = EvaluateFitness(population[i])
            /\ \A k \in 1..(Len(scored_population') - 1) :
                   RatLeq(scored_population'[k + 1].score, scored_population'[k].score)
            /\ best_layout' = scored_population'[1].individual
            /\ best_score' = scored_population'[1].score]_vars

\* a best-ever pair found in generation 0 came unchanged through a
\* reproduction whose offspring score higher
BestPairWitness ==
    /\ pc = "evaluate" /\ generation = 1
    /\ best_layout # None
    /\ \E i \in 1..Len(population) :
           RatLt(best_score, EvaluateFitness(population[i]))

\* the layout (units, corridors) a result describes
LayoutOfResult(res) ==
    [ilots |-> [i \in 1..Len(res.ilots) |->
                   [id |-> res.ilots[i].id, rect |-> ResultRect(res.ilots[i]),
                    room_type |-> res.ilots[i].room_type, area |-> res.ilots[i].area]],
     corridors |-> [i \in 1..Len(res.corridors) |->
                   [id |-> res.corridors[i].id, rect |-> ResultRect(res.corridors[i]),
                    width |-> res.corridors[i].corridor_width,
                    connected_ilots |-> res.corridors[i].connectedIlots]]]

\* C19: in every returned result optimization_score is _evaluate_fitness of
\* the returned units and corridors and utilization_percentage is
\* 100 * (sum of the unit areas) / available area, 0 when that area is 0.
MetricsArePure ==
    Returned(result) =>
        LET available == Max2(0, floor_plan.width * floor_plan.height
                                 - SumAreas(restricted_areas) - SumAreas(entrance_areas))
            total == SumSeq([i \in 1..Len(result.ilots) |-> result.ilots[i].area])
        IN  /\ result.optimization_score = EvaluateFitness(LayoutOfResult(result))
            /\ result.utilization_percentage =
                   IF available > 0 THEN Rat(100 * total, available) ELSE Zero

\* a genetic run returned a layout with corridors and a positive score
MetricsWitness ==
    /\ pc = "done" /\ strategy = "genetic"
    /\ generation = generations
    /\ result.corridors # <<>>
    /\ RatLt(Zero, result.optimization_score)
    /\ RatLt(Zero, result.utilization_percentage)

\* C20: every generation has population_size individuals (50 in the source),
\* and the population_size / 5 highest-scoring individuals of a generation
\* (10 in the source) are members of the next one, units and corridors as
\* they were.
ElitesCarried ==
    /\ [](pc \in {"evaluate", "reproduce"} => Len(population) = population_size)
    /\ [][pc = "reproduce" =>
            \E E \in SUBSET (1..Len(scored_population)) :
                /\ Cardinality(E) = population_size \div 5
                /\ \A i \in E : \A j \in (1..Len(scored_population)) \ E :
                       RatLeq(scored_population[j].score, scored_population[i].score)
                /\ \A i \in E : \E k \in 1..Len(population') :
                       /\ population'[k].ilots = scored_population[i].individual.ilots
                       /\ population'[k].corridors = scored_population[i].individual.corridors
                /\ \A i \in E : \E k \in 1..Len(population) :
                       population[k] = scored_population[i].individual]_vars

\* generation 1 holds the best individual of generation 0 next to offspring
\* that differ from it
ElitesCarriedWitness ==
    /\ pc = "evaluate" /\ generation = 1
    /\ best_layout # None
    /\ population[1] = best_layout
    /\ \E i \in 2..Len(population) : population[i].ilots # best_layout.ilots

\* C21: the individual _tournament_selection returns is an entry of the
\* scored population whose score is the highest of some min(5, n) distinct
\* entries of the n; so an entry with a strictly lower score than at least
\* n - 4 others (46 of 50) is never returned.
TournamentContract ==
    call.fn = "tournament_selection" =>
        LET scored == call.scored_population
            n == Len(scored)
            better(i) == {j \in 1..n : RatLt(scored[i].score, scored[j].score)}
        IN  /\ \E sample \in SUBSET (1..n) :
                   /\ Cardinality(sample) = Min2(5, n)
                   /\ \E i \in sample :
                          /\ scored[i].individual = call.ret
                          /\ \A j \in sample : RatLeq(scored[j].score, scored[i].score)
            /\ \A i \in 1..n :
                   (n >= 5 /\ Cardinality(better(i)) >= n - 4) =>
                       scored[i].individual # call.ret

\* of seven ranked entries the third was returned, two entries scoring higher
TournamentWitness ==
    /\ call.fn = "tournament_selection"
    /\ Len(call.scored_population) = 7
    /\ call.ret = call.scored_population[3].individual
    /\ RatLt(call.scored_population[3].score, call.scored_population[2].score)

\* the entries of pool at the indices of K, in order
Picked(pool, K) ==
    LET ord == SelectSeq([i \in 1..Len(pool) |-> i], LAMBDA i : i \in K)
    IN  [m \in 1..Len(ord) |-> pool[ord[m]]]

\* C22: the units of _crossover(A, B) are a subsequence of A's units
\* followed by B's units, pairwise non-intersecting whatever the parents;
\* every unit left out intersects a unit kept before it; the corridors are
\* those the synthesiser gives for the kept units.
CrossoverContract ==
    call.fn = "crossover" =>
        LET pool == call.parent1.ilots \o call.parent2.ilots
            kept == call.ret.ilots
        IN  /\ \E K \in SUBSET (1..Len(pool)) :
                   /\ kept = Picked(pool, K)
                   /\ \A d \in (1..Len(pool)) \ K :
                          \E k \in K : k < d /\ SharePoint(pool[d].rect, pool[k].rect)
            /\ \A i, j \in 1..Len(kept) :
                   i # j => ~SharePoint(kept[i].rect, kept[j].rect)
            /\ call.ret.corridors = GenerateCorridors(kept)

\* the second unit of A and the first unit of B were dropped, the second
\* unit of B was kept, and the child has corridors
CrossoverWitness ==
    /\ call.fn = "crossover"
    /\ Len(call.parent1.ilots) = 2 /\ Len(call.parent2.ilots) = 2
    /\ call.ret.ilots = <<call.parent1.ilots[1], call.parent2.ilots[2]>>
    /\ call.parent1.ilots[2] # call.parent2.ilots[2]
    /\ call.ret.corridors # <<>>

\* C23: _mutate returns as many units as it was given, with the same ids in
\* the same order and the same width, height and area; at most one unit
\* differs from the input, in position only and by at most 5 on each axis,
\* and then its new position is inside the floor and shares no point with
\* another unit of the layout or a restricted or entrance/exit rectangle;
\* the corridors are those of the resulting units.
MutateContract ==
    call.fn = "mutate" =>
        LET before == call.individual.ilots
            after == call.ret.ilots
            changed == {i \in 1..Len(before) : after[i] # before[i]}
        IN  /\ Len(after) = Len(before)
            /\ \A i \in 1..Len(before) :
                   /\ after[i].id = before[i].id
                   /\ after[i].rect.width = before[i].rect.width
                   /\ after[i].rect.height = before[i].rect.height
                   /\ after[i].area = before[i].area
                   /\ after[i].min_size = before[i].min_size
                   /\ after[i].max_size = before[i].max_size
                   /\ after[i].room_type = before[i].room_type
            /\ Cardinality(changed) <= 1
            /\ \A i \in changed :
                   /\ Abs(after[i].rect.x - before[i].rect.x) <= 5
                   /\ Abs(after[i].rect.y - before[i].rect.y) <= 5
                   /\ 0 <= after[i].rect.x /\ 0 <= after[i].rect.y
                   /\ after[i].rect.x + after[i].rect.width <= floor_plan.width
                   /\ after[i].rect.y + after[i].rect.height <= floor_plan.height
                   /\ \A j \in 1..Len(after) :
                          j # i => ~SharePoint(after[i].rect, after[j].rect)
                   /\ \A k \in 1..Len(restricted_areas) :
                          ~SharePoint(after[i].rect, restricted_areas[k])
                   /\ \A k \in 1..Len(entrance_areas) :
                          ~SharePoint(after[i].rect, entrance_areas[k])
            /\ call.ret.corridors = GenerateCorridors(after)

\* on a floor with a restricted zone the second of two units moved, and the
\* corridors of the result are not those of the input
MutateWitness ==
    /\ call.fn = "mutate"
    /\ restricted_areas # <<>>
    /\ Len(call.individual.ilots) = 2
    /\ call.ret.ilots[1] = call.individual.ilots[1]
    /\ call.ret.ilots[2].rect # call.individual.ilots[2].rect
    /\ call.ret.corridors # call.individual.corridors

\* the unit boundary coordinates of one axis in ascending order
Boundaries(ilots, axis) ==
    Sorted([i \in 1..Len(ilots) |->
               IF axis = "y" THEN ilots[i].rect.y ELSE ilots[i].rect.x]
           \o
           [i \in 1..Len(ilots) |->
               IF axis = "y" THEN ilots[i].rect.y + ilots[i].rect.height
               ELSE ilots[i].rect.x + ilots[i].rect.width])

\* the indices k, ascending, of the gaps bs[k]..bs[k + 1] of at least 1.5 * cw
WideGaps(bs, cw) ==
    SelectSeq([k \in 1..(Len(bs) - 1) |-> k],
              LAMBDA k : 2 * (bs[k + 1] - bs[k]) >= 3 * cw)

\* the corridors of one kind, in the order of the list
OfKind(corridors, kind) == SelectSeq(corridors, LAMBDA c : c.id.kind = kind)

\* C24: the synthesiser gives min(3, number of qualifying gaps) corridors
\* per axis (at most 6 in all), the k-th of an axis lying in the k-th gap, in
\* ascending order of the sorted boundary coordinates, whose size is at
\* least 1.5 * corridor_width; no corridor lies in a smaller gap, and no
\* units give no corridors.
CorridorCap ==
    call.fn = "generate_corridors" =>
        LET cw == profile.corridor_width
            ys == Boundaries(call.ilots, "y")
            xs == Boundaries(call.ilots, "x")
            hs == OfKind(call.ret, "h_corridor")
            vs == OfKind(call.ret, "v_corridor")
        IN  /\ Len(call.ret) = Len(hs) + Len(vs)
            /\ Len(hs) <= 3 /\ Len(vs) <= 3 /\ Len(call.ret) <= 6
            /\ Len(hs) = Min2(3, Len(WideGaps(ys, cw)))
            /\ Len(vs) = Min2(3, Len(WideGaps(xs, cw)))
            /\ \A k \in 1..Len(hs) :
                   LET g == WideGaps(ys, cw)[k]
                   IN  /\ 2 * ys[g] <= hs[k].rect.y
                       /\ hs[k].rect.y + hs[k].rect.height <= 2 * ys[g + 1]
            /\ \A k \in 1..Len(vs) :
                   LET g == WideGaps(xs, cw)[k]
                   IN  /\ 2 * xs[g] <= vs[k].rect.x
                       /\ vs[k].rect.x + vs[k].rect.width <= 2 * xs[g + 1]
            /\ (call.ilots = <<>> => call.ret = <<>>)

\* three units gave five gaps along x, four of them wide enough and one too
\* small: three vertical corridors
CorridorCapWitness ==
    /\ call.fn = "generate_corridors"
    /\ Len(call.ilots) = 3
    /\ Len(WideGaps(Boundaries(call.ilots, "x"), profile.corridor_width)) = 4
    /\ Len(OfKind(call.ret, "v_corridor")) = 3
    /\ Len(OfKind(call.ret, "h_corridor")) >= 1

\* the doubled interval [lo2, lo2 + len2] has the same distance to both
\* ends of some gap between neighbouring boundary coordinates and lies in it
CentredInGap(lo2, len2, bs) ==
    \E k \in 1..(Len(bs) - 1) :
        /\ lo2 - 2 * bs[k] = 2 * bs[k + 1] - (lo2 + len2)
        /\ 2 * bs[k] <= lo2 /\ lo2 + len2 <= 2 * bs[k + 1]

\* C25: a horizontal corridor has x = 0, the floor's width and height
\* corridor_width; a vertical one has y = 0, the floor's height and width
\* corridor_width; along its sweep axis each is centred in a gap between
\* neighbouring boundary coordinates, lies between the two and inside the
\* floor (corridor_width > 0, rectangles doubled).
CorridorGeometry ==
    (call.fn = "generate_corridors" /\ profile.corridor_width > 0) =>
        \A i \in 1..Len(call.ret) :
            LET c == call.ret[i]
                r == c.rect
            IN  /\ c.width = profile.corridor_width
                /\ c.id.kind \in {"h_corridor", "v_corridor"}
                /\ c.id.kind = "h_corridor" =>
                       /\ r.x = 0 /\ r.width = 2 * floor_plan.width
                       /\ r.height = 2 * profile.corridor_width
                       /\ CentredInGap(r.y, r.height, Boundaries(call.ilots, "y"))
                       /\ 0 <= r.y /\ r.y + r.height <= 2 * floor_plan.height
                /\ c.id.kind = "v_corridor" =>
                       /\ r.y = 0 /\ r.height = 2 * floor_plan.height
                       /\ r.width = 2 * profile.corridor_width
                       /\ CentredInGap(r.x, r.width, Boundaries(call.ilots, "x"))
                       /\ 0 <= r.x /\ r.x + r.width <= 2 * floor_plan.width

\* a corridor of width 2 sits in the middle of a gap of 3, on a half unit
CorridorGeometryWitness ==
    /\ call.fn = "generate_corridors"
    /\ profile.corridor_width = 2
    /\ \E i \in 1..Len(call.ret) :
           /\ call.ret[i].id.kind = "v_corridor"
           /\ call.ret[i].rect.x % 2 = 1
    /\ \E i \in 1..Len(call.ret) : call.ret[i].id.kind = "h_corridor"

\* C26: the size-distribution term is the average over the profile buckets
\* of max(0, 1 - 2 * |actual - percentage / 100|), where actual is (units
\* whose area falls in the bucket) / (units whose area falls in some
\* bucket): units matching no bucket are not in the denominator.
SizeTermIgnoresUnmatched ==
    (call.fn = "evaluate_size_distribution" /\ call.ilots # <<>>) =>
        LET sd == profile.size_distribution
            inside(b) == {i \in 1..Len(call.ilots) :
                             /\ b.min_size <= call.ilots[i].area
                             /\ call.ilots[i].area <= b.max_size}
            matched == UNION {inside(sd[k]) : k \in 1..Len(sd)}
            m == Cardinality(matched)
            term(b) ==
                IF m > 0
                THEN Rat(Max2(0, 100 * m - 2 * Abs(100 * Cardinality(inside(b))
                                                    - b.percentage * m)),
                         100 * m)
                ELSE Rat(Max2(0, 100 - 2 * b.percentage), 100)
            sum[k \in 0..Len(sd)] ==
                IF k = 0 THEN Zero ELSE RatAdd(sum[k - 1], term(sd[k]))
        IN  call.ret = RatMul(sum[Len(sd)], Rat(1, Len(sd)))

\* some point of the integer grid lies in both closed rectangles (rectangles
\* with integer corners that share a point share a grid point)
ShareGridPoint(a, b) ==
    \E px \in -1..9, py \in 0..7 :
        /\ a.x <= px /\ px <= a.x + a.width /\ a.y <= py /\ py <= a.y + a.height
        /\ b.x <= px /\ px <= b.x + b.width /\ b.y <= py /\ py <= b.y + b.height

\* C27: a.intersects(b) is true exactly when the closed rectangles a and b
\* share a point (touching along an edge or at a corner included), so a
\* rectangle with non-negative extents intersects itself; and a candidate
\* the validator accepts shares no point, not even a boundary point, with a
\* placed unit or a restricted or entrance/exit rectangle.
IntersectsClosed ==
    /\ call.fn = "intersects" =>
           /\ call.ret <=> ShareGridPoint(call.self, call.other)
           /\ call.self = call.other => call.ret
    /\ (call.fn = "is_valid_placement" /\ call.ret) =>
           /\ \A i \in 1..Len(call.existing_ilots) :
                  ~ShareGridPoint(call.rect, call.existing_ilots[i].rect)
           /\ \A i \in 1..Len(restricted_areas) :
                  ~ShareGridPoint(call.rect, restricted_areas[i])
           /\ \A i \in 1..Len(entrance_areas) :
                  ~ShareGridPoint(call.rect, entrance_areas[i])

\* two rectangles of positive area with only a corner in common intersect
IntersectsClosedWitness ==
    /\ call.fn = "intersects"
    /\ call.ret
    /\ Area(call.self) > 0 /\ Area(call.other) > 0
    /\ call.self.x + call.self.width = call.other.x
    /\ call.self.y + call.self.height = call.other.y

\* the open rectangles a and b have a point in common
InteriorsOverlap(a, b) ==
    /\ Max2(a.x, b.x) < Min2(a.x + a.width, b.x + b.width)
    /\ Max2(a.y, b.y) < Min2(a.y + a.height, b.y + b.height)

\* C28: for a unit list whose units do not overlap, no corridor the
\* synthesiser gives overlaps the interior of a unit of the list (corridor
\* rectangles are doubled, so the units are doubled to compare).
CorridorsAvoidUnits ==
    (/\ call.fn = "generate_corridors"
     /\ \A i, j \in 1..Len(call.ilots) :
            i # j => ~SharePoint(call.ilots[i].rect, call.ilots[j].rect)) =>
        \A k \in 1..Len(call.ret) : \A i \in 1..Len(call.ilots) :
            ~InteriorsOverlap(call.ret[k].rect, Twice(call.ilots[i].rect))

\* no two units of the list share a point
PairwiseApart(ilots) ==
    \A i, j \in 1..Len(ilots) : i # j => ~SharePoint(ilots[i].rect, ilots[j].rect)

\* C29: when A's units are pairwise non-intersecting, the units of
\* _crossover(A, B) are A's units in A's order followed by a subsequence of
\* B's units, whatever B; and the units of _crossover(A, A) are exactly A's.
\* (That _crossover(A, B) and _crossover(B, A) can differ is the witness.)
CrossoverKeepsFirstParent ==
    (call.fn = "crossover" /\ PairwiseApart(call.parent1.ilots)) =>
        LET A == call.parent1.ilots
            B == call.parent2.ilots
            child == call.ret.ilots
        IN  /\ Len(child) >= Len(A)
            /\ SubSeq(child, 1, Len(A)) = A
            /\ \E K \in SUBSET (1..Len(B)) :
                   SubSeq(child, Len(A) + 1, Len(child)) = Picked(B, K)
            /\ call.parent2 = call.parent1 => child = A

\* two parents with pairwise disjoint units whose children in the two orders
\* hold different units: A's unit displaced B's, and B's would displace A's
CrossoverAsymmetryWitness ==
    /\ call.fn = "crossover"
    /\ PairwiseApart(call.parent1.ilots) /\ PairwiseApart(call.parent2.ilots)
    /\ Len(call.parent1.ilots) = 2 /\ Len(call.parent2.ilots) = 1
    /\ call.ret.ilots = call.parent1.ilots
    /\ Crossover(call.parent2, call.parent1).ilots = call.parent2.ilots

\* C30: every unit of every returned layout has area = width * height and
\* an area within its declared band: the band [15, 25] for a unit the greedy
\* strategy placed, a bucket of the iterated size distribution for a unit
\* the random building block placed (random and genetic runs, crossover and
\* mutation included).
UnitsWithinBand ==
    Returned(result) =>
        \A i \in 1..Len(result.ilots) :
            LET u == result.ilots[i]
                sd == IF profile.size_distribution # <<>> THEN profile.size_distribution
                      ELSE DefaultSizeDistribution
            IN  /\ u.area * Den(u) * Den(u) = u.width * u.height
                /\ IF strategy = "greedy"
                   THEN 15 <= u.area /\ u.area <= 25
                   ELSE \E k \in 1..Len(sd) :
                            sd[k].min_size <= u.area /\ u.area <= sd[k].max_size

====
